---- MODULE Spec2Model ----
(***************************************************************************)
(* Kakeibo-App: household-finance tracker (Next.js pages on Supabase).     *)
(*                                                                         *)
(* Screens modelled:                                                       *)
(*   GoalsPage            src/app/dashboard/goals/page.tsx                 *)
(*   HistoryPage          src/unnamed/part_001                             *)
(*   TransactionInputPage src/unnamed/part_000                             *)
(*   InputPage            src/app/dashboard/input/page.tsx                 *)
(*                                                                         *)
(* Abstractions, stated once:                                              *)
(*  - JavaScript numbers are exact rationals plus NaN and +/-Infinity;     *)
(*    rounding of IEEE doubles is not modelled.                            *)
(*  - The calendar is uniform: every month has DaysPerMonth days and every *)
(*    day TicksPerDay instants; the local time zone is UTC.                *)
(*  - A text is a sequence of one-character strings; a date text           *)
(*    "yyyy-MM-dd" is the pair <<month index, day>>.                       *)
(***************************************************************************)
EXTENDS Integers, Sequences, FiniteSets, TLC

VARIABLES
    user,           \* useAuth().user: the signed-in user's id, or NoUser
    now,            \* the instant read by new Date()
    dbGoals,        \* table savings_goals, in created_at order
    goals,          \* GoalsPage state: goals
    goalsLoading,   \* GoalsPage state: loading
    goalsError,     \* GoalsPage state: error
    dbTransactions, \* table transactions, in created_at order
    currentMonth,   \* HistoryPage state: currentMonth (its month index)
    transactions,   \* HistoryPage state: transactions
    dailyTotals,    \* HistoryPage state: dailyTotals, a map keyed by date text
    histLoading,    \* HistoryPage state: loading
    histCategories, \* HistoryPage state: categories
    page,           \* the entry page that is mounted
    txInput,        \* TransactionInputPage state, a record of its useState cells
    dashInput,      \* InputPage state, a record of its useState cells
    pendingInsert,  \* the transactions insert awaiting its response, or NoRequest
    goalsUi,        \* GoalsPage state: forms, editingGoal, success, deleteConfirm
    histUi,         \* HistoryPage state: selectedDate, the edit dialog, last alert
    requests,       \* store calls of GoalsPage and HistoryPage awaiting a response
    nextGoalId,     \* the next value of the serial column savings_goals.goal_id
    loginUi,        \* LoginPage state, a record of its useState cells
    session         \* environment: the group of controls the user operates

goalsVars == <<goals, goalsLoading, goalsError>>

historyVars ==
    <<currentMonth, transactions, dailyTotals, histLoading, histCategories>>

entryVars == <<page, txInput, dashInput, pendingInsert>>

opsVars == <<goalsUi, histUi, requests, nextGoalId, session>>

vars ==
    <<user, now, dbGoals, dbTransactions, goalsVars, historyVars, entryVars,
      opsVars, loginUi>>

(***************************************************************************)
(* Bounds of the model.                                                    *)
(***************************************************************************)
MaxGoals == 1
MaxTransactions == 3
MaxInserts == 1
DaysPerMonth == 2
TicksPerDay == 2

NoUser == "none"
Users == {"u1", "u2"}

(***************************************************************************)
(* JavaScript number values.                                               *)
(***************************************************************************)
Abs(i) == IF i < 0 THEN -i ELSE i

Sign(i) == IF i < 0 THEN -1 ELSE IF i > 0 THEN 1 ELSE 0

RECURSIVE Gcd(_, _)
Gcd(a, b) == IF b = 0 THEN a ELSE Gcd(b, a % b)

NaN == [k |-> "nan", n |-> 0, d |-> 1]
Infinity(s) == [k |-> "inf", n |-> s, d |-> 1]
JsNull == [k |-> "null", n |-> 0, d |-> 1]

\* the rational n/d in lowest terms, d > 0
Rat(n, d) ==
    LET g == Gcd(Abs(n), Abs(d))
    IN  [k |-> "num", n |-> Sign(d) * (n \div g), d |-> Abs(d) \div g]

Num(i) == [k |-> "num", n |-> i, d |-> 1]

IsNaN(a) == a.k = "nan"

\* a - b
JsSub(a, b) ==
    IF IsNaN(a) \/ IsNaN(b) THEN NaN
    ELSE IF a.k = "inf" /\ b.k = "inf"
         THEN (IF a.n = b.n THEN NaN ELSE a)
    ELSE IF a.k = "inf" THEN a
    ELSE IF b.k = "inf" THEN Infinity(-b.n)
    ELSE Rat(a.n * b.d - b.n * a.d, a.d * b.d)

\* a + b
JsAdd(a, b) ==
    IF IsNaN(a) \/ IsNaN(b) THEN NaN
    ELSE IF a.k = "inf" /\ b.k = "inf"
         THEN (IF a.n = b.n THEN a ELSE NaN)
    ELSE IF a.k = "inf" THEN a
    ELSE IF b.k = "inf" THEN b
    ELSE Rat(a.n * b.d + b.n * a.d, a.d * b.d)

\* a * b
JsMul(a, b) ==
    IF IsNaN(a) \/ IsNaN(b) THEN NaN
    ELSE IF a.k = "inf" \/ b.k = "inf"
         THEN (IF a.n = 0 \/ b.n = 0 THEN NaN
               ELSE Infinity(Sign(a.n) * Sign(b.n)))
    ELSE Rat(a.n * b.n, a.d * b.d)

\* a / b: x/0 is +/-Infinity, 0/0 is NaN
JsDiv(a, b) ==
    IF IsNaN(a) \/ IsNaN(b) THEN NaN
    ELSE IF a.k = "inf" /\ b.k = "inf" THEN NaN
    ELSE IF a.k = "inf"
         THEN Infinity(a.n * (IF b.n < 0 THEN -1 ELSE 1))
    ELSE IF b.k = "inf" THEN Num(0)
    ELSE IF b.n = 0
         THEN (IF a.n = 0 THEN NaN ELSE Infinity(Sign(a.n)))
    ELSE Rat(a.n * b.d, a.d * b.n)

\* a < b; every comparison with NaN is false
JsLt(a, b) ==
    /\ ~IsNaN(a)
    /\ ~IsNaN(b)
    /\ IF a.k = "inf" THEN a.n < 0 /\ b # a
       ELSE IF b.k = "inf" THEN b.n > 0
       ELSE a.n * b.d < b.n * a.d

JsGt(a, b) == JsLt(b, a)

JsLe(a, b) == JsLt(a, b) \/ (~IsNaN(a) /\ a = b)

\* Math.min and Math.max: NaN if either argument is NaN
MathMin(a, b) ==
    IF IsNaN(a) \/ IsNaN(b) THEN NaN
    ELSE IF JsLt(b, a) THEN b ELSE a

MathMax(a, b) ==
    IF IsNaN(a) \/ IsNaN(b) THEN NaN
    ELSE IF JsLt(a, b) THEN b ELSE a

\* a is a finite number
IsFinite(a) == a.k = "num"

(***************************************************************************)
(* Texts and their conversion to numbers.                                  *)
(***************************************************************************)
Digits == {"0", "1", "2", "3", "4", "5", "6", "7", "8", "9"}

DigitVal(c) ==
    CASE c = "0" -> 0 [] c = "1" -> 1 [] c = "2" -> 2 [] c = "3" -> 3
      [] c = "4" -> 4 [] c = "5" -> 5 [] c = "6" -> 6 [] c = "7" -> 7
      [] c = "8" -> 8 [] c = "9" -> 9

\* length of the longest prefix of s made of digits only
RECURSIVE DigitRun(_)
DigitRun(s) ==
    IF s = <<>> \/ Head(s) \notin Digits THEN 0 ELSE 1 + DigitRun(Tail(s))

\* value of a text of digits
RECURSIVE DigitsVal(_)
DigitsVal(s) ==
    IF s = <<>> THEN 0
    ELSE DigitsVal(SubSeq(s, 1, Len(s) - 1)) * 10 + DigitVal(s[Len(s)])

RECURSIVE Pow10(_)
Pow10(i) == IF i = 0 THEN 1 ELSE 10 * Pow10(i - 1)

\* the longest prefix [-]digits[.digits] of s that is a decimal literal and the
\* number it denotes; len = 0 when s does not start with one
DecimalPrefix(s) ==
    LET neg  == s # <<>> /\ Head(s) = "-"
        body == IF neg THEN Tail(s) ELSE s
        ip   == DigitRun(body)
        rest == SubSeq(body, ip + 1, Len(body))
        fp   == IF rest # <<>> /\ Head(rest) = "."
                THEN DigitRun(Tail(rest)) ELSE 0
        dot  == IF rest # <<>> /\ Head(rest) = "." /\ (ip > 0 \/ fp > 0)
                THEN 1 ELSE 0
        mag  == Rat(DigitsVal(SubSeq(body, 1, ip)) * Pow10(fp)
                      + DigitsVal(SubSeq(rest, 2, 1 + fp)),
                    Pow10(fp))
    IN  IF ip = 0 /\ fp = 0 THEN [len |-> 0, val |-> NaN]
        ELSE [len |-> (IF neg THEN 1 ELSE 0) + ip + dot + fp,
              val |-> IF neg THEN JsSub(Num(0), mag) ELSE mag]

\* parseFloat(text): the number denoted by the longest numeric prefix
ParseFloat(s) == DecimalPrefix(s).val

\* Number(text): the whole text must be a number; the empty text is 0
NumberOfText(s) ==
    IF s = <<>> THEN Num(0)
    ELSE IF DecimalPrefix(s).len = Len(s) THEN DecimalPrefix(s).val
    ELSE NaN

DigitChar(i) ==
    CASE i = 0 -> "0" [] i = 1 -> "1" [] i = 2 -> "2" [] i = 3 -> "3"
      [] i = 4 -> "4" [] i = 5 -> "5" [] i = 6 -> "6" [] i = 7 -> "7"
      [] i = 8 -> "8" [] i = 9 -> "9"

\* the decimal digits of a natural number
RECURSIVE DigitsOf(_)
DigitsOf(i) ==
    IF i < 10 THEN <<DigitChar(i)>>
    ELSE DigitsOf(i \div 10) \o <<DigitChar(i % 10)>>

\* the digits after the point of r/d, 0 < r < d, d a divisor of a power of 10
RECURSIVE FractionDigits(_, _)
FractionDigits(r, d) ==
    IF r = 0 THEN <<>>
    ELSE <<DigitChar((r * 10) \div d)>> \o FractionDigits((r * 10) % d, d)

\* number.toString() for the numbers a decimal literal denotes
NumberToText(a) ==
    CASE a.k = "nan" -> <<"N", "a", "N">>
      [] a.k = "inf" -> (IF a.n < 0 THEN <<"-">> ELSE <<>>) \o <<"I", "n", "f">>
      [] a.k = "num" ->
            (IF a.n < 0 THEN <<"-">> ELSE <<>>)
              \o DigitsOf(Abs(a.n) \div a.d)
              \o (IF Abs(a.n) % a.d = 0 THEN <<>>
                  ELSE <<".">> \o FractionDigits(Abs(a.n) % a.d, a.d))

(***************************************************************************)
(* Values a store column can hand to the client.                           *)
(***************************************************************************)
NullValue == [t |-> "null"]
NumberValue(i) == [t |-> "number", v |-> Num(i)]
TextValue(s) == [t |-> "text", v |-> s]

\* Number(x)
ToNumber(x) ==
    CASE x.t = "null" -> Num(0)
      [] x.t = "number" -> x.v
      [] x.t = "text" -> NumberOfText(x.v)

\* x is falsy as a number: 0 or NaN
NumberIsFalsy(a) == IsNaN(a) \/ (a.k = "num" /\ a.n = 0)

\* Number(x) || 0
NumberOrZero(x) == IF NumberIsFalsy(ToNumber(x)) THEN Num(0) ELSE ToNumber(x)

(***************************************************************************)
(* Dates.  An instant is a number of ticks since day 1 of month 0.         *)
(***************************************************************************)
TicksPerMonth == DaysPerMonth * TicksPerDay

InvalidDate == [k |-> "invalid", t |-> 0]
DateAt(t) == [k |-> "date", t |-> t]

\* the instant of midnight of day d of month m
Midnight(m, d) == (m * DaysPerMonth + (d - 1)) * TicksPerDay

MonthOf(t) == t \div TicksPerMonth
DayOf(t) == ((t % TicksPerMonth) \div TicksPerDay) + 1
CalendarDayOf(t) == t \div TicksPerDay

\* new Date(text) for a date text <<month, day>>: Invalid Date unless the
\* fields denote a day of the calendar
NewDate(s) ==
    IF Len(s) = 2 /\ s[1] >= 0 /\ s[2] \in 1..DaysPerMonth
    THEN DateAt(Midnight(s[1], s[2]))
    ELSE InvalidDate

\* date.toISOString().slice(0, 10)
ToISODate(date) == <<MonthOf(date.t), DayOf(date.t)>>

\* !isNaN(date.getTime())
IsValidDate(date) == date.k = "date"

\* date-fns compareAsc
CompareAsc(l, r) == Sign(l - r)

\* date-fns isLastDayOfMonth
IsLastDayOfMonth(t) == DayOf(t) = DaysPerMonth

\* date-fns differenceInMonths on instants: the number of full months
\* between l and r, truncated toward zero
DifferenceInMonthsT(l, r) ==
    LET sign       == CompareAsc(l, r)
        difference == Abs(MonthOf(l) - MonthOf(r))
        shifted    == l - sign * difference * TicksPerMonth
        notFull    == CompareAsc(shifted, r) = -sign
        oneFull    == IsLastDayOfMonth(l) /\ difference = 1
                         /\ CompareAsc(l, r) = 1
        isLastMonthNotFull == IF oneFull THEN FALSE ELSE notFull
    IN  IF difference < 1 THEN 0
        ELSE sign * (difference - (IF isLastMonthNotFull THEN 1 ELSE 0))

\* date-fns differenceInDays on instants: the number of full days
DifferenceInDaysT(l, r) ==
    LET sign       == CompareAsc(l, r)
        difference == Abs(CalendarDayOf(l) - CalendarDayOf(r))
        shifted    == l - sign * difference * TicksPerDay
        isLastDayNotFull == CompareAsc(shifted, r) = -sign
    IN  sign * (difference - (IF isLastDayNotFull THEN 1 ELSE 0))

\* the two functions on Date objects: NaN for an Invalid Date
DifferenceInMonths(dl, dr) ==
    IF IsValidDate(dl) /\ IsValidDate(dr)
    THEN Num(DifferenceInMonthsT(dl.t, dr.t)) ELSE NaN

DifferenceInDays(dl, dr) ==
    IF IsValidDate(dl) /\ IsValidDate(dr)
    THEN Num(DifferenceInDaysT(dl.t, dr.t)) ELSE NaN

(***************************************************************************)
(* GoalsPage.fetchGoals: the derived fields of one savings_goals row.      *)
(***************************************************************************)
\* goal.deadline is truthy: neither null nor the empty text
HasDeadline(goal) == goal.deadline.t = "text" /\ goal.deadline.v # <<>>

\* Progress without the targetAmount > 0 test
ProgressUnguarded(targetAmount, currentAmount) ==
    JsMul(JsDiv(currentAmount, targetAmount), Num(100))

\* targetAmount > 0 ? (currentAmount / targetAmount) * 100 : 0
Progress(targetAmount, currentAmount) ==
    IF JsGt(targetAmount, Num(0))
    THEN JsMul(JsDiv(currentAmount, targetAmount), Num(100))
    ELSE Num(0)

\* progress_percentage: Math.min(progress, 100)
ProgressPercentage(progress) == MathMin(progress, Num(100))

\* the deadline parsed, when it is present and parses to a date
DeadlineDate(goal) == NewDate(goal.deadline.v)

\* DeadlineParses without the isNaN(getTime()) test
DeadlineParsesUnchecked(goal) == HasDeadline(goal)

DeadlineParses(goal) == HasDeadline(goal) /\ IsValidDate(DeadlineDate(goal))

MonthsRemaining(goal, today) ==
    IF DeadlineParses(goal)
    THEN DifferenceInMonths(DeadlineDate(goal), today) ELSE JsNull

DaysRemaining(goal, today) ==
    IF DeadlineParses(goal)
    THEN DifferenceInDays(DeadlineDate(goal), today) ELSE JsNull

\* MonthlyRequired dividing the target, not the remaining amount
MonthlyRequiredOfTarget(goal, targetAmount, currentAmount, today) ==
    IF DeadlineParses(goal) /\ JsGt(MonthsRemaining(goal, today), Num(0))
    THEN JsDiv(targetAmount, MonthsRemaining(goal, today))
    ELSE Num(0)

\* MonthlyRequired testing monthsRemaining >= 0
MonthlyRequiredFromZero(goal, targetAmount, currentAmount, today) ==
    IF DeadlineParses(goal) /\ JsLe(Num(0), MonthsRemaining(goal, today))
    THEN JsDiv(JsSub(targetAmount, currentAmount),
               MonthsRemaining(goal, today))
    ELSE Num(0)

\* monthlyRequired: remaining / monthsRemaining when monthsRemaining > 0
MonthlyRequired(goal, targetAmount, currentAmount, today) ==
    IF DeadlineParses(goal) /\ JsGt(MonthsRemaining(goal, today), Num(0))
    THEN JsDiv(JsSub(targetAmount, currentAmount),
               MonthsRemaining(goal, today))
    ELSE Num(0)

\* ReportedDeadline reporting only a parsed deadline
ReportedDeadlineParsedOnly(goal) ==
    IF DeadlineParses(goal) THEN ToISODate(DeadlineDate(goal))
    ELSE <<>>

\* the deadline reported back: the ISO form of a parsed one, else the stored
\* text, else the empty text
ReportedDeadline(goal) ==
    IF DeadlineParses(goal) THEN ToISODate(DeadlineDate(goal))
    ELSE IF HasDeadline(goal) THEN goal.deadline.v
    ELSE <<>>

\* the element fetchGoals maps a row to
GoalWithCalculations(goal, today) ==
    LET targetAmount  == NumberOrZero(goal.target_amount)
        currentAmount == NumberOrZero(goal.current_amount)
    IN  [goal_id |-> goal.goal_id,
         user_id |-> goal.user_id,
         goal_name |-> goal.goal_name,
         is_active |-> goal.is_active,
         target_amount |-> targetAmount,
         current_amount |-> currentAmount,
         progress_percentage |->
             ProgressPercentage(Progress(targetAmount, currentAmount)),
         monthly_required_amount |->
             MathMax(MonthlyRequired(goal, targetAmount, currentAmount, today),
                     Num(0)),
         days_remaining |-> DaysRemaining(goal, today),
         months_remaining |-> MonthsRemaining(goal, today),
         deadline |-> ReportedDeadline(goal)]

(***************************************************************************)
(* The store.                                                              *)
(***************************************************************************)
Reverse(s) == [i \in 1..Len(s) |-> s[Len(s) + 1 - i]]

\* savings_goals: select * where user_id = uid order by created_at desc
SelectGoals(uid) ==
    Reverse(SelectSeq(dbGoals, LAMBDA g : g.user_id = uid))

\* the stored row of a displayed goal
StoredGoal(id) == CHOOSE g \in {dbGoals[i] : i \in DOMAIN dbGoals} : g.goal_id = id

(***************************************************************************)
(* Rows the store may hold when the page is opened.  The store is an       *)
(* external collaborator: amounts may be non-numeric and deadlines         *)
(* unparseable.  The newest row is any row of GoalContents, the older ones *)
(* are rows as handleCreateGoal writes them.                               *)
(***************************************************************************)
RawTargets ==
    {NumberValue(0), NumberValue(50000), NumberValue(120000),
     TextValue(<<"a", "b", "c">>)}

RawCurrents ==
    {NumberValue(-30000), NumberValue(0), NumberValue(30000),
     NumberValue(50000), NumberValue(150000), TextValue(<<"a", "b", "c">>)}

DeadlineMonths == {0, 1, 2, 7, 8}

RawDeadlines ==
    {NullValue, TextValue(<<>>), TextValue(<<3, 0>>)}
      \cup {TextValue(<<m, d>>) : m \in DeadlineMonths, d \in 1..DaysPerMonth}

NowMonth == 1

NowInstants ==
    {Midnight(NowMonth, d) + h : d \in 1..DaysPerMonth, h \in 0..(TicksPerDay - 1)}

GoalContents ==
    [user_id : {"u1"}, goal_name : {"trip"}, is_active : {TRUE},
     target_amount : RawTargets, current_amount : RawCurrents,
     deadline : RawDeadlines]
      \cup
    [user_id : {"u2"}, goal_name : {"car"}, is_active : {TRUE},
     target_amount : {NumberValue(50000)},
     current_amount : {NumberValue(0)},
     deadline : {NullValue}]

\* rows as handleCreateGoal writes them, of either user
OrdinaryGoalContents ==
    [user_id : Users, goal_name : {"car"}, is_active : {TRUE},
     target_amount : {NumberValue(50000)},
     current_amount : {NumberValue(0)},
     deadline : {NullValue}]

GoalRow(c, id) ==
    [goal_id |-> id, user_id |-> c.user_id, goal_name |-> c.goal_name,
     is_active |-> c.is_active, target_amount |-> c.target_amount,
     current_amount |-> c.current_amount, deadline |-> c.deadline]

\* goal_id of no goal: editingGoal and deleteConfirm when they are null
NoGoal == 0

\* useState initial values of GoalsPage
GoalsPageMount ==
    /\ goals = <<>>
    /\ goalsLoading = TRUE
    /\ goalsError = "null"
    /\ goalsUi = [showNewGoalForm |-> FALSE,
                  editingGoal |-> NoGoal,
                  newGoal |-> [goal_name |-> "", target_amount |-> <<>>,
                               deadline |-> <<>>],
                  editGoal |-> [goal_name |-> "", target_amount |-> <<>>,
                                current_amount |-> <<>>, deadline |-> <<>>],
                  success |-> FALSE,
                  deleteConfirm |-> NoGoal]

NoRequest == [origin |-> "none"]

NullCategoryId == 0

\* format(new Date(), "yyyy-MM-dd") and new Date().toISOString().split("T")[0]
TodayText == <<MonthOf(now), DayOf(now)>>

\* useState initial values of TransactionInputPage and of InputPage
EntryPagesMount ==
    /\ txInput = [transactionType |-> "income", date |-> TodayText,
                  amount |-> <<>>, categoryId |-> NullCategoryId,
                  memo |-> <<>>, categories |-> <<>>, loading |-> FALSE,
                  error |-> "null", success |-> FALSE,
                  fetchCategoriesDue |-> TRUE]
    /\ dashInput = [transactionType |-> "expense", amount |-> <<>>,
                    category |-> "", note |-> <<>>, date |-> TodayText,
                    loading |-> FALSE, error |-> "null", success |-> FALSE]
    /\ pendingInsert = NoRequest

\* useState initial values of LoginPage; call is the auth call awaiting its
\* response and pushed the path given to router.push
LoginPageMount ==
    loginUi = [activeTab |-> "login", email |-> "", password |-> "",
               loading |-> FALSE, error |-> "null", message |-> "null",
               call |-> "none", pushed |-> "none"]

(***************************************************************************)
(* Table categories: read-only, seeded outside the program.                *)
(***************************************************************************)
dbCategories ==
    <<[category_id |-> 1, name |-> "food", type |-> "expense",
       display_order |-> 1],
      [category_id |-> 2, name |-> "transport", type |-> "expense",
       display_order |-> 2],
      [category_id |-> 3, name |-> "salary", type |-> "income",
       display_order |-> 1],
      [category_id |-> 4, name |-> "bonus", type |-> "income",
       display_order |-> 2]>>

NoCategory == [category_id |-> 0, name |-> "", type |-> "", display_order |-> 0]

\* the joined category:categories(*) of a transaction row, or null
CategoryOf(id) ==
    IF \E i \in DOMAIN dbCategories : dbCategories[i].category_id = id
    THEN dbCategories[CHOOSE i \in DOMAIN dbCategories :
                          dbCategories[i].category_id = id]
    ELSE NoCategory

(***************************************************************************)
(* HistoryPage.fetchTransactions: the select and the daily totals.         *)
(***************************************************************************)
\* date texts compare as yyyy-MM-dd strings do
DateTextLe(a, b) == a[1] < b[1] \/ (a[1] = b[1] /\ a[2] <= b[2])

\* format(startOfMonth(m), "yyyy-MM-dd") and format(endOfMonth(m), ..)
FirstDay(m) == <<m, 1>>
LastDay(m) == <<m, DaysPerMonth>>

\* the rows of dbTransactions at the indices ix, ordered by date descending,
\* then created_at descending
RECURSIVE OrderByDateDesc(_)
OrderByDateDesc(ix) ==
    IF ix = {} THEN <<>>
    ELSE LET first == CHOOSE i \in ix : \A j \in ix :
                          \/ j = i
                          \/ ~DateTextLe(dbTransactions[i].date,
                                         dbTransactions[j].date)
                          \/ (dbTransactions[i].date = dbTransactions[j].date
                                /\ j < i)
         IN  <<dbTransactions[first]>> \o OrderByDateDesc(ix \ {first})

\* the select of SelectTransactions without its order clauses: the rows
\* come in the order of the table
SelectTransactionsUnordered(uid, firstDay, lastDay) ==
    LET rows == SelectSeq(dbTransactions,
                    LAMBDA r : /\ r.user_id = uid
                               /\ DateTextLe(firstDay, r.date)
                               /\ DateTextLe(r.date, lastDay))
    IN  [i \in DOMAIN rows |->
            [transaction_id |-> rows[i].transaction_id,
             user_id |-> rows[i].user_id,
             type |-> rows[i].type,
             amount |-> rows[i].amount,
             category_id |-> rows[i].category_id,
             date |-> rows[i].date,
             memo |-> rows[i].memo,
             category |-> CategoryOf(rows[i].category_id)]]

\* transactions: select *, category:categories(*) where user_id = uid and
\* firstDay <= date <= lastDay order by date desc, created_at desc
SelectTransactions(uid, firstDay, lastDay) ==
    LET rows == OrderByDateDesc({i \in DOMAIN dbTransactions :
                    /\ dbTransactions[i].user_id = uid
                    /\ DateTextLe(firstDay, dbTransactions[i].date)
                    /\ DateTextLe(dbTransactions[i].date, lastDay)})
    IN  [i \in DOMAIN rows |->
            [transaction_id |-> rows[i].transaction_id,
             user_id |-> rows[i].user_id,
             type |-> rows[i].type,
             amount |-> rows[i].amount,
             category_id |-> rows[i].category_id,
             date |-> rows[i].date,
             memo |-> rows[i].memo,
             category |-> CategoryOf(rows[i].category_id)]]

EmptyMap == <<>>

\* map.set(key, value)
MapSet(map, key, value) ==
    [x \in (DOMAIN map) \cup {key} |-> IF x = key THEN value ELSE map[x]]

\* Accumulate adding every amount to income, whatever the type
AccumulateAsIncome(totals, tx) ==
    LET dateKey  == tx.date
        existing == IF dateKey \in DOMAIN totals THEN totals[dateKey]
                    ELSE [income |-> Num(0), expense |-> Num(0),
                          net |-> Num(0)]
        summed   == [existing EXCEPT !.income = JsAdd(@, ToNumber(tx.amount))]
    IN  MapSet(totals, dateKey,
               [summed EXCEPT !.net = JsSub(summed.income, summed.expense)])

\* Accumulate adding income - expense to the previous net at every step
AccumulateRunningNet(totals, tx) ==
    LET dateKey  == tx.date
        existing == IF dateKey \in DOMAIN totals THEN totals[dateKey]
                    ELSE [income |-> Num(0), expense |-> Num(0),
                          net |-> Num(0)]
        summed   == IF tx.type = "income"
                    THEN [existing EXCEPT
                            !.income = JsAdd(@, ToNumber(tx.amount))]
                    ELSE [existing EXCEPT
                            !.expense = JsAdd(@, ToNumber(tx.amount))]
    IN  MapSet(totals, dateKey,
               [summed EXCEPT !.net =
                   JsAdd(@, JsSub(summed.income, summed.expense))])

\* one step of txs.forEach: the totals after tx is accumulated
Accumulate(totals, tx) ==
    LET dateKey  == tx.date
        existing == IF dateKey \in DOMAIN totals THEN totals[dateKey]
                    ELSE [income |-> Num(0), expense |-> Num(0),
                          net |-> Num(0)]
        summed   == IF tx.type = "income"
                    THEN [existing EXCEPT
                            !.income = JsAdd(@, ToNumber(tx.amount))]
                    ELSE [existing EXCEPT
                            !.expense = JsAdd(@, ToNumber(tx.amount))]
    IN  MapSet(totals, dateKey,
               [summed EXCEPT !.net = JsSub(summed.income, summed.expense)])

\* txs.forEach(...) starting from totals
RECURSIVE AccumulateAll(_, _)
AccumulateAll(totals, txs) ==
    IF txs = <<>> THEN totals
    ELSE AccumulateAll(Accumulate(totals, Head(txs)), Tail(txs))

\* DailyTotalsOf starting from a zero entry for every day of the first
\* transaction's month
DailyTotalsOfZeroFilled(txs) ==
    IF txs = <<>> THEN EmptyMap
    ELSE AccumulateAll([k \in {<<Head(txs).date[1], d>> : d \in 1..DaysPerMonth}
                           |-> [income |-> Num(0), expense |-> Num(0),
                                net |-> Num(0)]],
                       txs)

\* the Map fetchTransactions builds from the fetched rows
DailyTotalsOf(txs) == AccumulateAll(EmptyMap, txs)

(***************************************************************************)
(* Rows of table transactions when the page is opened.  amount is a        *)
(* numeric column, handed over as a number or as its decimal text.         *)
(***************************************************************************)
\* the dates of the month the page opens on
TransactionDates == {<<NowMonth, d>> : d \in 1..DaysPerMonth}

\* rows of the user in the month shown, one row of the user in the next
\* month, one row of another user
TransactionContents ==
    [user_id : {"u1"}, date : TransactionDates, memo : {NullValue},
     kind : {[type |-> "income", amount |-> NumberValue(1000),
              category_id |-> 3],
             [type |-> "expense", amount |-> NumberValue(300),
              category_id |-> 1],
             [type |-> "expense", amount |-> TextValue(<<"2", "0", "0">>),
              category_id |-> 2]}]
      \cup
    [user_id : {"u1"}, date : {<<NowMonth + 1, 1>>}, memo : {NullValue},
     kind : {[type |-> "expense", amount |-> NumberValue(300),
              category_id |-> 1]}]
      \cup
    [user_id : {"u2"}, date : {<<NowMonth, 1>>}, memo : {NullValue},
     kind : {[type |-> "income", amount |-> NumberValue(1000),
              category_id |-> 3]}]

TransactionRow(c, id) ==
    [transaction_id |-> id, user_id |-> c.user_id, type |-> c.kind.type,
     amount |-> c.kind.amount, category_id |-> c.kind.category_id,
     date |-> c.date, memo |-> c.memo]

(***************************************************************************)
(* HistoryPage.                                                            *)
(***************************************************************************)
\* editingTransaction when it is null
NoTransaction ==
    [transaction_id |-> 0, user_id |-> NoUser, type |-> "",
     amount |-> NullValue, category_id |-> NullCategoryId, date |-> <<>>,
     memo |-> NullValue, category |-> NoCategory]

\* useState initial values of HistoryPage
HistoryPageMount ==
    /\ currentMonth = MonthOf(now)
    /\ transactions = <<>>
    /\ dailyTotals = EmptyMap
    /\ histLoading = TRUE
    /\ histCategories = <<>>
    /\ histUi = [selectedDate |-> <<>>,
                 editingTransaction |-> NoTransaction,
                 editAmount |-> <<>>,
                 editCategoryId |-> NullCategoryId,
                 editDate |-> <<>>,
                 alert |-> "null"]

InitHistory ==
    /\ user = "u1"
    /\ now = Midnight(NowMonth, 1)
    /\ dbGoals = <<>>
    /\ \E n \in 0..MaxTransactions : \E c \in [1..n -> TransactionContents] :
           dbTransactions = [i \in 1..n |-> TransactionRow(c[i], i)]
    /\ GoalsPageMount
    /\ HistoryPageMount
    /\ page = "none"
    /\ EntryPagesMount
    /\ LoginPageMount
    /\ requests = <<>>
    /\ nextGoalId = Len(dbGoals) + 1
    /\ session = "none"

\* categories: select * order by name
SelectCategoriesByName ==
    LET ids == {dbCategories[i].category_id : i \in DOMAIN dbCategories}
        \* the names in ascending order: bonus, food, salary, transport
        byName == <<4, 1, 3, 2>>
    IN  [i \in DOMAIN byName |-> CategoryOf(byName[i])]

\* fetchTransactions, both selects succeed
FetchTransactionsOk ==
    /\ user # NoUser
    /\ histCategories' = SelectCategoriesByName
    /\ transactions' =
           SelectTransactions(user, FirstDay(currentMonth),
                              LastDay(currentMonth))
    /\ dailyTotals' = DailyTotalsOf(transactions')
    /\ histLoading' = FALSE
    /\ UNCHANGED <<user, now, dbGoals, dbTransactions, currentMonth, goalsVars,
                   entryVars, opsVars,
                   loginUi>>

\* fetchTransactions, the categories select returns an error
FetchTransactionsCategoriesError ==
    /\ user # NoUser
    /\ histLoading' = FALSE
    /\ UNCHANGED <<user, now, dbGoals, dbTransactions, currentMonth,
                   transactions, dailyTotals, histCategories, goalsVars,
                   entryVars, opsVars,
                   loginUi>>

\* fetchTransactions, the transactions select returns an error
FetchTransactionsError ==
    /\ user # NoUser
    /\ histCategories' = SelectCategoriesByName
    /\ histLoading' = FALSE
    /\ UNCHANGED <<user, now, dbGoals, dbTransactions, currentMonth,
                   transactions, dailyTotals, goalsVars, entryVars, opsVars,
                   loginUi>>

NextHistory ==
    \/ FetchTransactionsOk
    \/ FetchTransactionsCategoriesError
    \/ FetchTransactionsError

SpecHistory == InitHistory /\ [][NextHistory]_vars

(***************************************************************************)
(* The two transaction-entry pages.                                        *)
(***************************************************************************)
\* texts typed into the amount fields
AmountTexts ==
    {<<>>, <<"0">>, <<"1", "0", "0">>, <<"-", "5">>, <<"a">>}

TransactionTypes == {"income", "expense"}

\* categories: select * where type = ty order by display_order
SelectCategoriesByType(ty) == SelectSeq(dbCategories, LAMBDA c : c.type = ty)

\* InputPage's hard-coded option lists (their first two names)
expenseCategories == <<"food", "transport">>
incomeCategories == <<"salary", "bonus">>

CategoryNames(ty) ==
    IF ty = "expense"
    THEN {expenseCategories[i] : i \in DOMAIN expenseCategories}
    ELSE {incomeCategories[i] : i \in DOMAIN incomeCategories}

\* memo || null
TextOrNull(s) == IF s = <<>> THEN NullValue ELSE TextValue(s)

\* the row the store keeps for the values of an insert
InsertedRow(values) ==
    [transaction_id |-> Len(dbTransactions) + 1,
     user_id |-> values.user_id,
     type |-> values.type,
     amount |-> [t |-> "number", v |-> values.amount],
     category_id |-> values.category_id,
     date |-> values.date,
     memo |-> values.memo]

InitEntry ==
    /\ user = "u1"
    /\ now = Midnight(NowMonth, 1)
    /\ dbGoals = <<>>
    /\ dbTransactions = <<>>
    /\ GoalsPageMount
    /\ HistoryPageMount
    /\ page \in {"input", "dashboardInput"}
    /\ EntryPagesMount
    /\ LoginPageMount
    /\ requests = <<>>
    /\ nextGoalId = Len(dbGoals) + 1
    /\ session = "none"

entryFrame ==
    <<user, now, dbGoals, goalsVars, historyVars, opsVars, loginUi>>

\* ---- TransactionInputPage ----

\* the income / expense buttons; the effect on transactionType refetches
TxInputSetTransactionType(ty) ==
    /\ page = "input"
    /\ ty # txInput.transactionType
    /\ txInput' = [txInput EXCEPT !.transactionType = ty,
                                  !.fetchCategoriesDue = TRUE]
    /\ UNCHANGED <<entryFrame, dbTransactions, page, dashInput, pendingInsert>>

\* fetchCategories, the select succeeds
TxInputFetchCategoriesOk ==
    /\ page = "input"
    /\ txInput.fetchCategoriesDue
    /\ LET cats == SelectCategoriesByType(txInput.transactionType)
       IN  txInput' = [txInput EXCEPT
               !.categories = cats,
               !.categoryId = IF Len(cats) > 0 THEN cats[1].category_id ELSE @,
               !.fetchCategoriesDue = FALSE]
    /\ UNCHANGED <<entryFrame, dbTransactions, page, dashInput, pendingInsert>>

\* fetchCategories, the select returns an error: it is only logged
TxInputFetchCategoriesError ==
    /\ page = "input"
    /\ txInput.fetchCategoriesDue
    /\ txInput' = [txInput EXCEPT !.fetchCategoriesDue = FALSE]
    /\ UNCHANGED <<entryFrame, dbTransactions, page, dashInput, pendingInsert>>

TxInputSetAmount(a) ==
    /\ page = "input"
    /\ a # txInput.amount
    /\ txInput' = [txInput EXCEPT !.amount = a]
    /\ UNCHANGED <<entryFrame, dbTransactions, page, dashInput, pendingInsert>>

\* the category select: one of the options listed
TxInputSetCategoryId(id) ==
    /\ page = "input"
    /\ id # txInput.categoryId
    /\ \E i \in DOMAIN txInput.categories :
           txInput.categories[i].category_id = id
    /\ txInput' = [txInput EXCEPT !.categoryId = id]
    /\ UNCHANGED <<entryFrame, dbTransactions, page, dashInput, pendingInsert>>

\* parsedAmount passes TransactionInputPage's test
TxInputAmountPasses(parsedAmount) ==
    ~(IsNaN(parsedAmount) \/ JsLt(parsedAmount, Num(0)))

\* handleSubmit up to the await of the insert
TxInputSubmit ==
    /\ page = "input"
    /\ user # NoUser
    /\ ~txInput.loading
    /\ LET parsedAmount == ParseFloat(txInput.amount)
       IN  IF ~TxInputAmountPasses(parsedAmount)
           THEN /\ txInput' = [txInput EXCEPT !.error = "amount invalid",
                                              !.success = FALSE,
                                              !.loading = FALSE]
                /\ UNCHANGED pendingInsert
           ELSE IF txInput.categoryId = NullCategoryId
           THEN /\ txInput' = [txInput EXCEPT !.error = "category missing",
                                              !.success = FALSE,
                                              !.loading = FALSE]
                /\ UNCHANGED pendingInsert
           ELSE /\ Len(dbTransactions) < MaxInserts
                /\ txInput' = [txInput EXCEPT !.error = "null",
                                              !.success = FALSE,
                                              !.loading = TRUE]
                /\ pendingInsert' =
                       [origin |-> "input",
                        values |-> [user_id |-> user,
                                    type |-> txInput.transactionType,
                                    amount |-> parsedAmount,
                                    category_id |-> txInput.categoryId,
                                    date |-> txInput.date,
                                    memo |-> TextOrNull(txInput.memo)]]
    /\ UNCHANGED <<entryFrame, dbTransactions, page, dashInput>>

\* handleSubmit after the await, the insert succeeded
TxInputInsertOk ==
    /\ page = "input"
    /\ pendingInsert.origin = "input"
    /\ dbTransactions' = Append(dbTransactions, InsertedRow(pendingInsert.values))
    /\ txInput' = [txInput EXCEPT !.success = TRUE, !.amount = <<>>,
                                  !.memo = <<>>, !.date = TodayText,
                                  !.loading = FALSE]
    /\ pendingInsert' = NoRequest
    /\ UNCHANGED <<entryFrame, page, dashInput>>

\* handleSubmit after the await, the insert returned an error
TxInputInsertError ==
    /\ page = "input"
    /\ pendingInsert.origin = "input"
    /\ txInput' = [txInput EXCEPT !.error = "save failed", !.loading = FALSE]
    /\ pendingInsert' = NoRequest
    /\ UNCHANGED <<entryFrame, dbTransactions, page, dashInput>>

\* setTimeout(() => setSuccess(false), 3000)
TxInputSuccessTimeout ==
    /\ page = "input"
    /\ txInput.success
    /\ txInput' = [txInput EXCEPT !.success = FALSE]
    /\ UNCHANGED <<entryFrame, dbTransactions, page, dashInput, pendingInsert>>

\* ---- InputPage ----

\* the income / expense buttons
DashSetTransactionType(ty) ==
    /\ page = "dashboardInput"
    /\ ty # dashInput.transactionType \/ dashInput.category # ""
    /\ dashInput' = [dashInput EXCEPT !.transactionType = ty, !.category = ""]
    /\ UNCHANGED <<entryFrame, dbTransactions, page, txInput, pendingInsert>>

DashSetAmount(a) ==
    /\ page = "dashboardInput"
    /\ a # dashInput.amount
    /\ dashInput' = [dashInput EXCEPT !.amount = a]
    /\ UNCHANGED <<entryFrame, dbTransactions, page, txInput, pendingInsert>>

\* the category select: a name of the list of the type, or the empty option
DashSetCategory(name) ==
    /\ page = "dashboardInput"
    /\ name # dashInput.category
    /\ name \in CategoryNames(dashInput.transactionType) \cup {""}
    /\ dashInput' = [dashInput EXCEPT !.category = name]
    /\ UNCHANGED <<entryFrame, dbTransactions, page, txInput, pendingInsert>>

\* amountValue passes InputPage's test
DashAmountPasses(amountValue) ==
    ~(IsNaN(amountValue) \/ JsLe(amountValue, Num(0)))

\* handleSubmit up to the await of the insert
DashSubmit ==
    /\ page = "dashboardInput"
    /\ user # NoUser
    /\ ~dashInput.loading
    /\ LET amountValue == ParseFloat(dashInput.amount)
       IN  IF ~DashAmountPasses(amountValue)
           THEN /\ dashInput' = [dashInput EXCEPT !.error = "amount invalid",
                                                  !.loading = FALSE]
                /\ UNCHANGED pendingInsert
           ELSE /\ Len(dbTransactions) < MaxInserts
                /\ dashInput' = [dashInput EXCEPT !.error = "null",
                                                  !.loading = TRUE]
                /\ pendingInsert' =
                       [origin |-> "dashboardInput",
                        values |-> [user_id |-> user,
                                    type |-> dashInput.transactionType,
                                    amount |-> amountValue,
                                    category_id |-> 1,
                                    date |-> dashInput.date,
                                    memo |-> TextOrNull(dashInput.note)]]
    /\ UNCHANGED <<entryFrame, dbTransactions, page, txInput>>

\* handleSubmit after the await, the insert succeeded
DashInsertOk ==
    /\ page = "dashboardInput"
    /\ pendingInsert.origin = "dashboardInput"
    /\ dbTransactions' = Append(dbTransactions, InsertedRow(pendingInsert.values))
    /\ dashInput' = [dashInput EXCEPT !.success = TRUE, !.amount = <<>>,
                                      !.category = "", !.note = <<>>,
                                      !.date = TodayText, !.loading = FALSE]
    /\ pendingInsert' = NoRequest
    /\ UNCHANGED <<entryFrame, page, txInput>>

\* handleSubmit after the await, the insert returned an error
DashInsertError ==
    /\ page = "dashboardInput"
    /\ pendingInsert.origin = "dashboardInput"
    /\ dashInput' = [dashInput EXCEPT !.error = "register failed",
                                      !.loading = FALSE]
    /\ pendingInsert' = NoRequest
    /\ UNCHANGED <<entryFrame, dbTransactions, page, txInput>>

\* setTimeout(() => { setSuccess(false); router.push("/dashboard") }, 1500)
DashSuccessTimeout ==
    /\ page = "dashboardInput"
    /\ dashInput.success
    /\ dashInput' = [dashInput EXCEPT !.success = FALSE]
    /\ page' = "dashboard"
    /\ UNCHANGED <<entryFrame, dbTransactions, txInput, pendingInsert>>

NextEntry ==
    \/ \E ty \in TransactionTypes : TxInputSetTransactionType(ty)
    \/ TxInputFetchCategoriesOk
    \/ TxInputFetchCategoriesError
    \/ \E a \in AmountTexts : TxInputSetAmount(a)
    \/ \E id \in {dbCategories[i].category_id : i \in DOMAIN dbCategories} :
           TxInputSetCategoryId(id)
    \/ TxInputSubmit
    \/ TxInputInsertOk
    \/ TxInputInsertError
    \/ TxInputSuccessTimeout
    \/ \E ty \in TransactionTypes : DashSetTransactionType(ty)
    \/ \E a \in AmountTexts : DashSetAmount(a)
    \/ \E name \in CategoryNames("income") \cup CategoryNames("expense") \cup {""} :
           DashSetCategory(name)
    \/ DashSubmit
    \/ DashInsertOk
    \/ DashInsertError
    \/ DashSuccessTimeout

SpecEntry == InitEntry /\ [][NextEntry]_vars

(***************************************************************************)
(* GoalsPage.                                                              *)
(***************************************************************************)
InitGoals ==
    /\ user = "u1"
    /\ now \in NowInstants
    /\ \/ dbGoals = <<>>
       \/ \E n \in 0..(MaxGoals - 1) :
          \E old \in [1..n -> OrdinaryGoalContents] : \E c \in GoalContents :
              dbGoals = [i \in 1..(n + 1) |->
                            GoalRow(IF i <= n THEN old[i] ELSE c, i)]
    /\ dbTransactions = <<>>
    /\ GoalsPageMount
    /\ HistoryPageMount
    /\ page = "none"
    /\ EntryPagesMount
    /\ LoginPageMount
    /\ requests = <<>>
    /\ nextGoalId = Len(dbGoals) + 1
    /\ session = "none"

\* fetchGoals, the select succeeds
FetchGoalsOk ==
    /\ user # NoUser
    /\ goals' = [i \in 1..Len(SelectGoals(user)) |->
                    GoalWithCalculations(SelectGoals(user)[i], DateAt(now))]
    /\ goalsLoading' = FALSE
    /\ UNCHANGED <<user, now, dbGoals, dbTransactions, goalsError,
                   historyVars, entryVars, opsVars,
                   loginUi>>

\* fetchGoals, the select returns an error
FetchGoalsError ==
    /\ user # NoUser
    /\ goalsError' = "fetch failed"
    /\ goalsLoading' = FALSE
    /\ UNCHANGED <<user, now, dbGoals, dbTransactions, goals, historyVars,
                   entryVars, opsVars,
                   loginUi>>

NextGoals == FetchGoalsOk \/ FetchGoalsError

SpecGoals == InitGoals /\ [][NextGoals]_vars

(***************************************************************************)
(* Properties of the goal progress calculator.                             *)
(***************************************************************************)
DisplayedGoals == {goals[i] : i \in DOMAIN goals}

\* the stored deadline of a displayed goal, as an instant, when it is the
\* text of a calendar day
CalendarDayTexts == {<<m, d>> : m \in DeadlineMonths, d \in 1..DaysPerMonth}

StoredDeadlineIsDay(g) ==
    /\ StoredGoal(g.goal_id).deadline.t = "text"
    /\ StoredGoal(g.goal_id).deadline.v \in CalendarDayTexts

StoredDeadlineInstant(g) ==
    Midnight(StoredGoal(g.goal_id).deadline.v[1],
             StoredGoal(g.goal_id).deadline.v[2])

\* the stored amount is the number i
StoredIs(x, i) == x.t = "number" /\ x.v = Num(i)

\* the stored amount is 0 or not a number
StoredIsZeroOrNonNumeric(x) ==
    \/ x.t = "null"
    \/ x.t = "number" /\ x.v \in {Num(0), NaN}
    \/ x.t = "text" /\ x.v \in {<<>>, <<"0">>, <<"a", "b", "c">>}

\* C1: every displayed goal has 0 <= progress_percentage <= 100, whatever
\* the stored target and current amounts are (current > target and
\* current < 0 included).
C1_ProgressWithinBounds ==
    \A g \in DisplayedGoals :
        /\ JsLe(Num(0), g.progress_percentage)
        /\ JsLe(g.progress_percentage, Num(100))

\* C2: a goal whose stored target is 0 or non-numeric is displayed with
\* progress_percentage = 0, a finite number, whatever its current amount.
C2_ZeroTargetZeroProgress ==
    \A g \in DisplayedGoals :
        StoredIsZeroOrNonNumeric(StoredGoal(g.goal_id).target_amount)
            => /\ IsFinite(g.progress_percentage)
               /\ g.progress_percentage = Num(0)

C2_Witness ==
    \E g \in DisplayedGoals :
        /\ StoredGoal(g.goal_id).target_amount.t = "text"
        /\ StoredIs(StoredGoal(g.goal_id).current_amount, 30000)
        /\ g.progress_percentage = Num(0)

\* C3: with a parseable deadline and months_remaining > 0 the monthly
\* required amount is max((target - current) / months_remaining, 0), never
\* negative; target 120000, current 30000 and a deadline 6 whole months
\* ahead give months_remaining = 6 and 15000 a month.
C3_MonthlyRequired ==
    \A g \in DisplayedGoals :
        /\ (StoredDeadlineIsDay(g) /\ JsGt(g.months_remaining, Num(0))) =>
              LET t == g.target_amount
                  c == g.current_amount
                  m == g.months_remaining
                  r == g.monthly_required_amount
              IN  /\ IsFinite(r) /\ IsFinite(m) /\ r.n >= 0
                  /\ IF JsGt(t, c)
                     THEN r.n * m.n * t.d * c.d
                            = (t.n * c.d - c.n * t.d) * r.d * m.d
                     ELSE r = Num(0)
        /\ (/\ StoredDeadlineIsDay(g)
            /\ StoredIs(StoredGoal(g.goal_id).target_amount, 120000)
            /\ StoredIs(StoredGoal(g.goal_id).current_amount, 30000)
            /\ StoredDeadlineInstant(g) >= now + 6 * TicksPerMonth
            /\ StoredDeadlineInstant(g) < now + 7 * TicksPerMonth)
              => /\ g.months_remaining = Num(6)
                 /\ g.monthly_required_amount = Num(15000)

C3_Witness ==
    \E g \in DisplayedGoals :
        /\ StoredIs(StoredGoal(g.goal_id).target_amount, 120000)
        /\ StoredIs(StoredGoal(g.goal_id).current_amount, 30000)
        /\ StoredDeadlineIsDay(g)
        /\ StoredDeadlineInstant(g) >= now + 6 * TicksPerMonth
        /\ StoredDeadlineInstant(g) < now + 7 * TicksPerMonth
        /\ g.months_remaining = Num(6)
        /\ g.monthly_required_amount = Num(15000)

\* C4: a goal whose deadline is strictly in the past, or in the month of
\* now, or has months_remaining <= 0, has monthly_required_amount = 0 (not
\* negative, not infinite); a deadline in the month of now has
\* months_remaining = 0.
C4_NoMonthLeftNothingRequired ==
    \A g \in DisplayedGoals :
        StoredDeadlineIsDay(g) =>
            /\ (\/ StoredDeadlineInstant(g) < now
                \/ MonthOf(StoredDeadlineInstant(g)) = MonthOf(now)
                \/ JsLe(g.months_remaining, Num(0)))
                  => g.monthly_required_amount = Num(0)
            /\ MonthOf(StoredDeadlineInstant(g)) = MonthOf(now)
                  => g.months_remaining = Num(0)
            /\ StoredDeadlineInstant(g) < now
                  => JsLe(g.months_remaining, Num(0))

C4_Witness ==
    \E g \in DisplayedGoals :
        /\ StoredDeadlineIsDay(g)
        /\ StoredDeadlineInstant(g) < now
        /\ MonthOf(StoredDeadlineInstant(g)) < MonthOf(now)
        /\ StoredIs(StoredGoal(g.goal_id).target_amount, 50000)
        /\ StoredIs(StoredGoal(g.goal_id).current_amount, 150000)
        /\ g.monthly_required_amount = Num(0)

\* C5: a goal whose stored deadline is null, empty or not the text of a
\* date is displayed with months_remaining = null, days_remaining = null
\* and monthly_required_amount = 0.
C5_NoDeadlineNoRemaining ==
    \A g \in DisplayedGoals :
        ~StoredDeadlineIsDay(g) =>
            /\ g.months_remaining = JsNull
            /\ g.days_remaining = JsNull
            /\ g.monthly_required_amount = Num(0)

C5_Witness ==
    \E g \in DisplayedGoals :
        /\ StoredGoal(g.goal_id).deadline = TextValue(<<3, 0>>)
        /\ g.months_remaining = JsNull
        /\ g.days_remaining = JsNull
        /\ g.monthly_required_amount = Num(0)

(***************************************************************************)
(* Properties of the daily aggregation.                                    *)
(***************************************************************************)
\* the indices of the fetched transactions of type ty dated d
FetchedOn(d, ty) ==
    {i \in DOMAIN transactions :
        transactions[i].date = d /\ transactions[i].type = ty}

\* the sum of the amounts of the fetched transactions at the indices ix
RECURSIVE SumOfAmounts(_)
SumOfAmounts(ix) ==
    IF ix = {} THEN 0
    ELSE LET i == CHOOSE j \in ix : TRUE
         IN  ToNumber(transactions[i].amount).n + SumOfAmounts(ix \ {i})

FetchedDates == {transactions[i].date : i \in DOMAIN transactions}

\* the fetched rows are the three of the scenario: income 1000 and expense
\* 300 on day 1, expense 200 on day 2
IsScenarioFetch ==
    /\ Len(transactions) = 3
    /\ \E i \in FetchedOn(<<NowMonth, 1>>, "income") :
           ToNumber(transactions[i].amount) = Num(1000)
    /\ \E i \in FetchedOn(<<NowMonth, 1>>, "expense") :
           ToNumber(transactions[i].amount) = Num(300)
    /\ \E i \in FetchedOn(<<NowMonth, 2>>, "expense") :
           ToNumber(transactions[i].amount) = Num(200)

ScenarioTotals ==
    [k \in {<<NowMonth, 1>>, <<NowMonth, 2>>} |->
        IF k = <<NowMonth, 1>>
        THEN [income |-> Num(1000), expense |-> Num(300), net |-> Num(700)]
        ELSE [income |-> Num(0), expense |-> Num(200), net |-> Num(-200)]]

\* C6: for every date, the DailyTotal of the date holds the sum of the
\* fetched income amounts of that date, the sum of its fetched expense
\* amounts, and net = income - expense; the three rows of the scenario give
\* {1000, 300, 700} and {0, 200, -200}.
C6_DailyTotalsAreSums ==
    /\ \A d \in FetchedDates \cup DOMAIN dailyTotals :
          /\ d \in DOMAIN dailyTotals
          /\ dailyTotals[d].income = Num(SumOfAmounts(FetchedOn(d, "income")))
          /\ dailyTotals[d].expense = Num(SumOfAmounts(FetchedOn(d, "expense")))
          /\ dailyTotals[d].net =
                 Num(SumOfAmounts(FetchedOn(d, "income"))
                       - SumOfAmounts(FetchedOn(d, "expense")))
    /\ IsScenarioFetch => dailyTotals = ScenarioTotals

C6_Witness == IsScenarioFetch /\ dailyTotals = ScenarioTotals

\* the fetched sequence rearranged by the permutation p of its indices
Permuted(p) == [i \in DOMAIN transactions |-> transactions[p[i]]]

C8_KeysAreFetchedDates == DOMAIN dailyTotals = FetchedDates

C8_Witness ==
    /\ histLoading = FALSE
    /\ <<NowMonth, 1>> \in DOMAIN dailyTotals
    /\ <<NowMonth, 2>> \notin DOMAIN dailyTotals
    /\ \E i \in DOMAIN dbTransactions :
           dbTransactions[i].date = <<NowMonth + 1, 1>>

(***************************************************************************)
(* Properties of the transaction-entry pages.                              *)
(***************************************************************************)
\* the amount text denotes a number strictly greater than 0
AmountIsPositive(text) == JsGt(ParseFloat(text), Num(0))

\* the id of the category of that name in table categories
CategoryIdOfName(name) ==
    IF \E i \in DOMAIN dbCategories : dbCategories[i].name = name
    THEN dbCategories[CHOOSE i \in DOMAIN dbCategories :
                          dbCategories[i].name = name].category_id
    ELSE NullCategoryId

\* C9: on both entry pages a submit whose amount is not a number strictly
\* greater than 0 (NaN, negative or 0) sets an error message and issues no
\* insert.
C9_NonPositiveAmountRejected ==
    [][/\ (TxInputSubmit /\ ~AmountIsPositive(txInput.amount))
            => (txInput'.error # "null" /\ pendingInsert' = NoRequest)
       /\ (DashSubmit /\ ~AmountIsPositive(dashInput.amount))
            => (dashInput'.error # "null" /\ pendingInsert' = NoRequest)]_vars

\* C10: on both entry pages an insert is issued only while a category is
\* selected, and the category_id it carries, which the store then keeps, is
\* the category selected in the form at submit time.
C10_SelectedCategoryPersisted ==
    [][/\ (TxInputSubmit /\ pendingInsert' # NoRequest)
            => /\ txInput.categoryId # NullCategoryId
               /\ pendingInsert'.values.category_id = txInput.categoryId
       /\ (DashSubmit /\ pendingInsert' # NoRequest)
            => /\ dashInput.category # ""
               /\ pendingInsert'.values.category_id
                      = CategoryIdOfName(dashInput.category)
       /\ (TxInputInsertOk \/ DashInsertOk)
            => dbTransactions'[Len(dbTransactions')].category_id
                   = pendingInsert.values.category_id]_vars

(***************************************************************************)
(* Store calls of GoalsPage and HistoryPage.  A handler sends a call and   *)
(* awaits it; the store executes or rejects the call; the response resumes *)
(* the handler after its await.                                            *)
(***************************************************************************)
\* calls awaiting a response at one time
MaxRequests == 2

\* rows ever inserted in savings_goals
MaxGoalRows == 1

\* environment: the user operates the controls of group s in this session
Operates(s) == session = s

\* the .eq / .gte / .lte filters of a call; NoUser, 0 and <<>> when absent
Match(uid, id, firstDay, lastDay) ==
    [user_id |-> uid, id |-> id, firstDay |-> firstDay, lastDay |-> lastDay]

NoMatch == Match(NoUser, 0, <<>>, <<>>)

\* a call as it is sent; locals are the handler's variables it reads after
\* the await
Request(caller, table, op, match, values) ==
    [caller |-> caller, table |-> table, op |-> op, match |-> match,
     values |-> values, status |-> "sent", rows |-> <<>>, locals |-> <<>>]

RemoveAt(s, i) == [j \in 1..(Len(s) - 1) |-> IF j < i THEN s[j] ELSE s[j + 1]]

\* the handler's call is in flight: sent, or answered and not yet resumed
InFlight(caller) ==
    {i \in DOMAIN requests : requests[i].caller = caller}

Answered(caller) ==
    {i \in InFlight(caller) : requests[i].status # "sent"}

\* a row of savings_goals passes the filters of a call
GoalMatches(row, match) ==
    /\ match.user_id = NoUser \/ row.user_id = match.user_id
    /\ match.id = 0 \/ row.goal_id = match.id

\* a row of transactions passes the filters of a call
TransactionMatches(row, match) ==
    /\ match.user_id = NoUser \/ row.user_id = match.user_id
    /\ match.id = 0 \/ row.transaction_id = match.id

\* savings_goals as GoalsAfter, with an update of handleUpdateGoal that
\* also writes is_active
GoalsAfterUpdateDeactivates(r) ==
    CASE r.op = "insert" ->
            Append(dbGoals,
                   [goal_id |-> nextGoalId,
                    user_id |-> r.values.user_id,
                    goal_name |-> r.values.goal_name,
                    is_active |-> r.values.is_active,
                    target_amount |-> r.values.target_amount,
                    current_amount |-> r.values.current_amount,
                    deadline |-> r.values.deadline])
      [] r.op = "update" /\ r.caller = "toggleGoalActive" ->
            [i \in DOMAIN dbGoals |->
                IF GoalMatches(dbGoals[i], r.match)
                THEN [dbGoals[i] EXCEPT !.is_active = r.values.is_active]
                ELSE dbGoals[i]]
      [] r.op = "update" /\ r.caller = "handleUpdateGoal" ->
            [i \in DOMAIN dbGoals |->
                IF GoalMatches(dbGoals[i], r.match)
                THEN [dbGoals[i] EXCEPT
                         !.goal_name = r.values.goal_name,
                         !.is_active = FALSE,
                         !.target_amount = r.values.target_amount,
                         !.current_amount = r.values.current_amount,
                         !.deadline = r.values.deadline]
                ELSE dbGoals[i]]
      [] r.op = "delete" ->
            SelectSeq(dbGoals, LAMBDA g : ~GoalMatches(g, r.match))

\* savings_goals after the store has executed the insert, update or delete r
GoalsAfter(r) ==
    CASE r.op = "insert" ->
            Append(dbGoals,
                   [goal_id |-> nextGoalId,
                    user_id |-> r.values.user_id,
                    goal_name |-> r.values.goal_name,
                    is_active |-> r.values.is_active,
                    target_amount |-> r.values.target_amount,
                    current_amount |-> r.values.current_amount,
                    deadline |-> r.values.deadline])
      [] r.op = "update" /\ r.caller = "toggleGoalActive" ->
            [i \in DOMAIN dbGoals |->
                IF GoalMatches(dbGoals[i], r.match)
                THEN [dbGoals[i] EXCEPT !.is_active = r.values.is_active]
                ELSE dbGoals[i]]
      [] r.op = "update" /\ r.caller = "handleUpdateGoal" ->
            [i \in DOMAIN dbGoals |->
                IF GoalMatches(dbGoals[i], r.match)
                THEN [dbGoals[i] EXCEPT
                         !.goal_name = r.values.goal_name,
                         !.target_amount = r.values.target_amount,
                         !.current_amount = r.values.current_amount,
                         !.deadline = r.values.deadline]
                ELSE dbGoals[i]]
      [] r.op = "delete" ->
            SelectSeq(dbGoals, LAMBDA g : ~GoalMatches(g, r.match))

\* transactions after the store has executed the update or delete r
TransactionsAfter(r) ==
    CASE r.op = "update" ->
            [i \in DOMAIN dbTransactions |->
                IF TransactionMatches(dbTransactions[i], r.match)
                THEN [dbTransactions[i] EXCEPT
                         !.amount = r.values.amount,
                         !.category_id = r.values.category_id,
                         !.date = r.values.date]
                ELSE dbTransactions[i]]
      [] r.op = "delete" ->
            SelectSeq(dbTransactions,
                      LAMBDA tx : ~TransactionMatches(tx, r.match))

\* the rows a select returns
RowsOf(r) ==
    CASE r.table = "savings_goals" -> SelectGoals(r.match.user_id)
      [] r.table = "categories" -> SelectCategoriesByName
      [] r.table = "transactions" ->
            SelectTransactions(r.match.user_id, r.match.firstDay,
                               r.match.lastDay)

\* the store executes the call at position i
StoreExecute(i) ==
    /\ i \in DOMAIN requests
    /\ requests[i].status = "sent"
    /\ LET r == requests[i]
       IN  /\ requests' =
                  [requests EXCEPT
                      ![i].status = "ok",
                      ![i].rows = IF r.op = "select" THEN RowsOf(r) ELSE <<>>]
           /\ dbGoals' =
                  IF r.table = "savings_goals" /\ r.op # "select"
                  THEN GoalsAfter(r) ELSE dbGoals
           /\ nextGoalId' =
                  IF r.table = "savings_goals" /\ r.op = "insert"
                  THEN nextGoalId + 1 ELSE nextGoalId
           /\ dbTransactions' =
                  IF r.table = "transactions" /\ r.op # "select"
                  THEN TransactionsAfter(r) ELSE dbTransactions
    /\ UNCHANGED <<user, now, goalsVars, historyVars, entryVars, goalsUi,
                   histUi, session,
                   loginUi>>

\* the call at position i fails: { error } is returned
StoreReject(i) ==
    /\ i \in DOMAIN requests
    /\ requests[i].status = "sent"
    /\ requests' = [requests EXCEPT ![i].status = "error"]
    /\ UNCHANGED <<user, now, dbGoals, dbTransactions, goalsVars, historyVars,
                   entryVars, goalsUi, histUi, nextGoalId, session,
                   loginUi>>

(***************************************************************************)
(* GoalsPage with its calls in flight.                                     *)
(***************************************************************************)
\* texts typed into the amount fields of the goal forms
NewGoalTargetTexts == {<<"0">>, <<"5", "0", "0", "0", "0">>}
EditGoalTargetTexts == {<<>>, <<"0">>}
EditGoalCurrentTexts == {<<"-", "5">>, <<"0">>}

goalsPageFrame ==
    <<user, now, dbGoals, dbTransactions, nextGoalId, session, historyVars,
      entryVars, histUi, loginUi>>

\* the page is rendered, not the loading screen
GoalsPageShown == page = "goals" /\ user # NoUser /\ ~goalsLoading

\* the card of goal is rendered with its buttons, not as the edit form
GoalCardShown(goal) == GoalsPageShown /\ goalsUi.editingGoal # goal.goal_id

\* the edit form of the goal goalId is rendered
EditFormShown(goalId) ==
    /\ GoalsPageShown
    /\ goalsUi.editingGoal = goalId
    /\ \E j \in DOMAIN goals : goals[j].goal_id = goalId

\* deadline || null
DeadlineOrNull(s) == IF s = <<>> THEN NullValue ELSE TextValue(s)

FetchGoalsRequest ==
    Request("fetchGoals", "savings_goals", "select",
            Match(user, 0, <<>>, <<>>), NullValue)

\* the useEffect on [user]
GoalsPageEffect ==
    /\ page = "goals"
    /\ user # NoUser
    /\ goals = <<>> /\ goalsLoading /\ requests = <<>> /\ goalsError = "null"
    /\ requests' = <<FetchGoalsRequest>>
    /\ UNCHANGED <<goalsVars, goalsUi, goalsPageFrame>>

\* fetchGoals after its await
FetchGoalsResume(i) ==
    /\ page = "goals"
    /\ i \in Answered("fetchGoals")
    /\ IF requests[i].status = "ok"
       THEN /\ goals' = [j \in DOMAIN requests[i].rows |->
                            GoalWithCalculations(requests[i].rows[j],
                                                 DateAt(now))]
            /\ UNCHANGED goalsError
       ELSE /\ goalsError' = "fetch failed"
            /\ UNCHANGED goals
    /\ goalsLoading' = FALSE
    /\ requests' = RemoveAt(requests, i)
    /\ UNCHANGED <<goalsUi, goalsPageFrame>>

\* the "new goal" button and the form's cancel button
SetShowNewGoalForm(b) ==
    /\ Operates("create")
    /\ GoalsPageShown
    /\ b = ~goalsUi.showNewGoalForm
    /\ goalsUi' = [goalsUi EXCEPT !.showNewGoalForm = b]
    /\ UNCHANGED <<goalsVars, requests, goalsPageFrame>>

\* the target amount field of the new-goal form
SetNewGoalTargetAmount(t) ==
    /\ Operates("create")
    /\ GoalsPageShown
    /\ goalsUi.showNewGoalForm
    /\ t # goalsUi.newGoal.target_amount
    /\ goalsUi' = [goalsUi EXCEPT !.newGoal.target_amount = t]
    /\ UNCHANGED <<goalsVars, requests, goalsPageFrame>>

\* the test without its comparison with 0
GoalTargetPassesAnyNumber(targetAmount) == ~IsNaN(targetAmount)

\* targetAmount passes the test of handleCreateGoal and handleUpdateGoal
GoalTargetPasses(targetAmount) ==
    ~(IsNaN(targetAmount) \/ JsLe(targetAmount, Num(0)))

\* the test without its comparison with 0
GoalCurrentPassesAnyNumber(currentAmount) == ~IsNaN(currentAmount)

\* currentAmount passes the test of handleUpdateGoal
GoalCurrentPasses(currentAmount) ==
    ~(IsNaN(currentAmount) \/ JsLt(currentAmount, Num(0)))

\* inserts sent so far: rows inserted and inserts awaiting the store
InsertsSent ==
    (nextGoalId - 1)
      + Cardinality({i \in InFlight("handleCreateGoal") :
                        requests[i].status = "sent"})

\* handleCreateGoal calling fetchGoals without awaiting the insert
handleCreateGoalUnawaited ==
    /\ Operates("create")
    /\ GoalsPageShown
    /\ goalsUi.showNewGoalForm
    /\ GoalTargetPasses(ParseFloat(goalsUi.newGoal.target_amount))
    /\ Len(requests) + 1 < MaxRequests
    /\ InsertsSent < MaxGoalRows
    /\ goalsError' = "null"
    /\ requests' =
           requests \o
             <<Request("handleCreateGoal", "savings_goals", "insert", NoMatch,
                       [user_id |-> user,
                        goal_name |-> goalsUi.newGoal.goal_name,
                        target_amount |->
                            [t |-> "number",
                             v |-> ParseFloat(goalsUi.newGoal.target_amount)],
                        current_amount |-> NumberValue(0),
                        deadline |-> DeadlineOrNull(goalsUi.newGoal.deadline),
                        is_active |-> TRUE]),
               FetchGoalsRequest>>
    /\ UNCHANGED <<goals, goalsLoading, goalsUi, goalsPageFrame>>

\* handleCreateGoal up to the await of the insert
handleCreateGoal ==
    /\ Operates("create")
    /\ GoalsPageShown
    /\ goalsUi.showNewGoalForm
    /\ LET targetAmount == ParseFloat(goalsUi.newGoal.target_amount)
       IN  IF ~GoalTargetPasses(targetAmount)
           THEN /\ goalsError' = "target invalid"
                /\ UNCHANGED requests
           ELSE /\ Len(requests) < MaxRequests
                /\ InsertsSent < MaxGoalRows
                /\ goalsError' = "null"
                /\ requests' =
                       Append(requests,
                              Request("handleCreateGoal", "savings_goals",
                                      "insert", NoMatch,
                                      [user_id |-> user,
                                       goal_name |-> goalsUi.newGoal.goal_name,
                                       target_amount |->
                                           [t |-> "number", v |-> targetAmount],
                                       current_amount |-> NumberValue(0),
                                       deadline |->
                                           DeadlineOrNull(goalsUi.newGoal.deadline),
                                       is_active |-> TRUE]))
    /\ UNCHANGED <<goals, goalsLoading, goalsUi, goalsPageFrame>>

\* handleCreateGoal after the await
handleCreateGoalResume(i) ==
    /\ page = "goals"
    /\ i \in Answered("handleCreateGoal")
    /\ IF requests[i].status = "ok"
       THEN /\ goalsUi' = [goalsUi EXCEPT
                   !.success = TRUE,
                   !.newGoal = [goal_name |-> "", target_amount |-> <<>>,
                                deadline |-> <<>>],
                   !.showNewGoalForm = FALSE]
            /\ goalsLoading' = TRUE
            /\ requests' = Append(RemoveAt(requests, i), FetchGoalsRequest)
            /\ UNCHANGED goalsError
       ELSE /\ goalsError' = "create failed"
            /\ requests' = RemoveAt(requests, i)
            /\ UNCHANGED <<goalsLoading, goalsUi>>
    /\ UNCHANGED <<goals, goalsPageFrame>>

\* toggleGoalActive(goal.goal_id, goal.is_active) up to the await
toggleGoalActive(j) ==
    /\ Operates("card")
    /\ j \in DOMAIN goals
    /\ GoalCardShown(goals[j])
    /\ Len(requests) < MaxRequests
    /\ requests' =
           Append(requests,
                  Request("toggleGoalActive", "savings_goals", "update",
                          Match(NoUser, goals[j].goal_id, <<>>, <<>>),
                          [is_active |-> ~goals[j].is_active]))
    /\ UNCHANGED <<goalsVars, goalsUi, goalsPageFrame>>

\* toggleGoalActive after the await
toggleGoalActiveResume(i) ==
    /\ page = "goals"
    /\ i \in Answered("toggleGoalActive")
    /\ IF requests[i].status = "ok"
       THEN /\ goalsLoading' = TRUE
            /\ requests' = Append(RemoveAt(requests, i), FetchGoalsRequest)
            /\ UNCHANGED goalsError
       ELSE /\ goalsError' = "update failed"
            /\ requests' = RemoveAt(requests, i)
            /\ UNCHANGED goalsLoading
    /\ UNCHANGED <<goals, goalsUi, goalsPageFrame>>

startEditGoal(j) ==
    /\ Operates("edit")
    /\ j \in DOMAIN goals
    /\ GoalCardShown(goals[j])
    /\ goalsUi' = [goalsUi EXCEPT
           !.editingGoal = goals[j].goal_id,
           !.editGoal = [goal_name |-> goals[j].goal_name,
                         target_amount |-> NumberToText(goals[j].target_amount),
                         current_amount |->
                             NumberToText(goals[j].current_amount),
                         deadline |-> goals[j].deadline]]
    /\ UNCHANGED <<goalsVars, requests, goalsPageFrame>>

cancelEdit ==
    /\ Operates("edit")
    /\ EditFormShown(goalsUi.editingGoal)
    /\ goalsUi' = [goalsUi EXCEPT
           !.editingGoal = NoGoal,
           !.editGoal = [goal_name |-> "", target_amount |-> <<>>,
                         current_amount |-> <<>>, deadline |-> <<>>]]
    /\ UNCHANGED <<goalsVars, requests, goalsPageFrame>>

\* the target amount field of the edit form
SetEditGoalTargetAmount(t) ==
    /\ Operates("edit")
    /\ EditFormShown(goalsUi.editingGoal)
    /\ t # goalsUi.editGoal.target_amount
    /\ goalsUi' = [goalsUi EXCEPT !.editGoal.target_amount = t]
    /\ UNCHANGED <<goalsVars, requests, goalsPageFrame>>

\* the current amount field of the edit form
SetEditGoalCurrentAmount(t) ==
    /\ Operates("edit")
    /\ EditFormShown(goalsUi.editingGoal)
    /\ t # goalsUi.editGoal.current_amount
    /\ goalsUi' = [goalsUi EXCEPT !.editGoal.current_amount = t]
    /\ UNCHANGED <<goalsVars, requests, goalsPageFrame>>

\* handleUpdateGoal(goalId) up to the await of the update
handleUpdateGoal(goalId) ==
    /\ Operates("edit")
    /\ EditFormShown(goalId)
    /\ LET targetAmount  == ParseFloat(goalsUi.editGoal.target_amount)
           currentAmount == ParseFloat(goalsUi.editGoal.current_amount)
       IN  IF ~GoalTargetPasses(targetAmount)
           THEN /\ goalsError' = "target invalid"
                /\ UNCHANGED requests
           ELSE IF ~GoalCurrentPasses(currentAmount)
           THEN /\ goalsError' = "current invalid"
                /\ UNCHANGED requests
           ELSE /\ Len(requests) < MaxRequests
                /\ goalsError' = "null"
                /\ requests' =
                       Append(requests,
                              Request("handleUpdateGoal", "savings_goals",
                                      "update",
                                      Match(NoUser, goalId, <<>>, <<>>),
                                      [goal_name |-> goalsUi.editGoal.goal_name,
                                       target_amount |->
                                           [t |-> "number", v |-> targetAmount],
                                       current_amount |->
                                           [t |-> "number", v |-> currentAmount],
                                       deadline |->
                                           DeadlineOrNull(
                                               goalsUi.editGoal.deadline)]))
    /\ UNCHANGED <<goals, goalsLoading, goalsUi, goalsPageFrame>>

\* handleUpdateGoal after the await
handleUpdateGoalResume(i) ==
    /\ page = "goals"
    /\ i \in Answered("handleUpdateGoal")
    /\ IF requests[i].status = "ok"
       THEN /\ goalsUi' = [goalsUi EXCEPT !.success = TRUE,
                                          !.editingGoal = NoGoal]
            /\ goalsLoading' = TRUE
            /\ requests' = Append(RemoveAt(requests, i), FetchGoalsRequest)
            /\ UNCHANGED goalsError
       ELSE /\ goalsError' = "update failed"
            /\ requests' = RemoveAt(requests, i)
            /\ UNCHANGED <<goalsLoading, goalsUi>>
    /\ UNCHANGED <<goals, goalsPageFrame>>

\* the delete button of a card and the cancel button of the confirmation
SetDeleteConfirm(goalId) ==
    /\ Operates("card")
    /\ goalId # goalsUi.deleteConfirm
    /\ IF goalId = NoGoal
       THEN \E j \in DOMAIN goals :
                /\ GoalCardShown(goals[j])
                /\ goals[j].goal_id = goalsUi.deleteConfirm
       ELSE \E j \in DOMAIN goals :
                /\ GoalCardShown(goals[j])
                /\ goals[j].goal_id = goalId
    /\ goalsUi' = [goalsUi EXCEPT !.deleteConfirm = goalId]
    /\ UNCHANGED <<goalsVars, requests, goalsPageFrame>>

\* handleDeleteGoal(goalId) up to the await of the delete
handleDeleteGoal(goalId) ==
    /\ Operates("card")
    /\ goalsUi.deleteConfirm = goalId
    /\ \E j \in DOMAIN goals :
           GoalCardShown(goals[j]) /\ goals[j].goal_id = goalId
    /\ Len(requests) < MaxRequests
    /\ requests' =
           Append(requests,
                  Request("handleDeleteGoal", "savings_goals", "delete",
                          Match(NoUser, goalId, <<>>, <<>>), NullValue))
    /\ UNCHANGED <<goalsVars, goalsUi, goalsPageFrame>>

\* handleDeleteGoal closing the confirmation before it reads the error
handleDeleteGoalResumeClosing(i) ==
    /\ page = "goals"
    /\ i \in Answered("handleDeleteGoal")
    /\ goalsUi' = [goalsUi EXCEPT !.deleteConfirm = NoGoal]
    /\ goalsError' = "delete failed"
    /\ requests' = RemoveAt(requests, i)
    /\ UNCHANGED <<goals, goalsLoading, goalsPageFrame>>

\* handleDeleteGoal after the await
handleDeleteGoalResume(i) ==
    /\ page = "goals"
    /\ i \in Answered("handleDeleteGoal")
    /\ IF requests[i].status = "ok"
       THEN /\ goalsUi' = [goalsUi EXCEPT !.success = TRUE,
                                          !.deleteConfirm = NoGoal]
            /\ goalsLoading' = TRUE
            /\ requests' = Append(RemoveAt(requests, i), FetchGoalsRequest)
            /\ UNCHANGED goalsError
       ELSE /\ goalsError' = "delete failed"
            /\ requests' = RemoveAt(requests, i)
            /\ UNCHANGED <<goalsLoading, goalsUi>>
    /\ UNCHANGED <<goals, goalsPageFrame>>

\* setTimeout(() => setSuccess(false), 3000)
GoalsSuccessTimeout ==
    /\ page = "goals"
    /\ goalsUi.success
    /\ goalsUi' = [goalsUi EXCEPT !.success = FALSE]
    /\ UNCHANGED <<goalsVars, requests, goalsPageFrame>>

NextGoalsPage ==
    \/ GoalsPageEffect
    \/ \E i \in 1..MaxRequests : FetchGoalsResume(i)
    \/ \E b \in BOOLEAN : SetShowNewGoalForm(b)
    \/ \E t \in NewGoalTargetTexts : SetNewGoalTargetAmount(t)
    \/ handleCreateGoal
    \/ \E i \in 1..MaxRequests : handleCreateGoalResume(i)
    \/ \E j \in 1..MaxGoalRows : toggleGoalActive(j)
    \/ \E i \in 1..MaxRequests : toggleGoalActiveResume(i)
    \/ \E j \in 1..MaxGoalRows : startEditGoal(j)
    \/ cancelEdit
    \/ \E t \in EditGoalTargetTexts : SetEditGoalTargetAmount(t)
    \/ \E t \in EditGoalCurrentTexts : SetEditGoalCurrentAmount(t)
    \/ \E goalId \in 1..MaxGoalRows : handleUpdateGoal(goalId)
    \/ \E i \in 1..MaxRequests : handleUpdateGoalResume(i)
    \/ \E goalId \in 0..MaxGoalRows : SetDeleteConfirm(goalId)
    \/ \E goalId \in 1..MaxGoalRows : handleDeleteGoal(goalId)
    \/ \E i \in 1..MaxRequests : handleDeleteGoalResume(i)
    \/ GoalsSuccessTimeout

(***************************************************************************)
(* HistoryPage with its calls in flight.                                   *)
(***************************************************************************)
\* texts typed into the amount field of the edit dialog
EditAmountTexts == {<<>>, <<"-", "5">>}

histPageFrame ==
    <<user, now, dbGoals, dbTransactions, nextGoalId, session, goalsVars,
      entryVars, goalsUi, loginUi>>

\* the page is rendered, not the loading screen
HistoryPageShown == page = "history" /\ user # NoUser /\ ~histLoading

\* the edit dialog is rendered
EditDialogShown ==
    HistoryPageShown /\ histUi.editingTransaction # NoTransaction

\* the first and last day fetchTransactions computes from the currentMonth of
\* the render whose callback it is
MonthWindow(m) == <<FirstDay(m), LastDay(m)>>

\* fetchTransactions up to its first await: the categories select, with the
\* first and last day it has computed
FetchCategoriesRequestOf(window) ==
    [Request("fetchTransactions", "categories", "select", NoMatch, NullValue)
        EXCEPT !.locals = window]

\* fetchTransactions of the current render
FetchCategoriesRequest == FetchCategoriesRequestOf(MonthWindow(currentMonth))

\* the transactions select of fetchTransactions
FetchTransactionsRequest(firstDay, lastDay) ==
    Request("fetchTransactions", "transactions", "select",
            Match(user, 0, firstDay, lastDay), NullValue)

\* the useEffect on [user, fetchTransactions]
HistoryPageEffect ==
    /\ page = "history"
    /\ user # NoUser
    /\ transactions = <<>> /\ histCategories = <<>> /\ histLoading
    /\ requests = <<>>
    /\ requests' = <<FetchCategoriesRequest>>
    /\ UNCHANGED <<historyVars, histUi, histPageFrame>>

\* fetchTransactions after the await of the categories select
FetchCategoriesResume(i) ==
    /\ page = "history"
    /\ i \in Answered("fetchTransactions")
    /\ requests[i].table = "categories"
    /\ IF requests[i].status = "ok"
       THEN /\ histCategories' = requests[i].rows
            /\ requests' =
                   Append(RemoveAt(requests, i),
                          FetchTransactionsRequest(requests[i].locals[1],
                                                   requests[i].locals[2]))
            /\ UNCHANGED histLoading
       ELSE /\ histLoading' = FALSE
            /\ requests' = RemoveAt(requests, i)
            /\ UNCHANGED histCategories
    /\ UNCHANGED <<currentMonth, transactions, dailyTotals, histUi,
                   histPageFrame>>

\* fetchTransactions after the await of the transactions select, without
\* its setDailyTotals
FetchTransactionsResumeListOnly(i) ==
    /\ page = "history"
    /\ i \in Answered("fetchTransactions")
    /\ requests[i].table = "transactions"
    /\ IF requests[i].status = "ok"
       THEN /\ transactions' = requests[i].rows
            /\ UNCHANGED dailyTotals
       ELSE UNCHANGED <<transactions, dailyTotals>>
    /\ histLoading' = FALSE
    /\ requests' = RemoveAt(requests, i)
    /\ UNCHANGED <<currentMonth, histCategories, histUi, histPageFrame>>

\* fetchTransactions after the await of the transactions select
FetchTransactionsResume(i) ==
    /\ page = "history"
    /\ i \in Answered("fetchTransactions")
    /\ requests[i].table = "transactions"
    /\ IF requests[i].status = "ok"
       THEN /\ transactions' = requests[i].rows
            /\ dailyTotals' = DailyTotalsOf(requests[i].rows)
       ELSE UNCHANGED <<transactions, dailyTotals>>
    /\ histLoading' = FALSE
    /\ requests' = RemoveAt(requests, i)
    /\ UNCHANGED <<currentMonth, histCategories, histUi, histPageFrame>>

\* handleDeleteTransaction(transaction.transaction_id), confirmed, up to the
\* await of the delete
handleDeleteTransaction(j) ==
    /\ Operates("delete")
    /\ HistoryPageShown
    /\ j \in DOMAIN transactions
    /\ Len(requests) < MaxRequests
    /\ requests' =
           Append(requests,
                  [Request("handleDeleteTransaction", "transactions", "delete",
                           Match(NoUser, transactions[j].transaction_id,
                                 <<>>, <<>>),
                           NullValue)
                      EXCEPT !.locals = MonthWindow(currentMonth)])
    /\ UNCHANGED <<historyVars, histUi, histPageFrame>>

\* handleDeleteTransaction after the await: fetchTransactions is the callback
\* of the render the handler was started in
handleDeleteTransactionResume(i) ==
    /\ page = "history"
    /\ i \in Answered("handleDeleteTransaction")
    /\ IF requests[i].status = "ok"
       THEN /\ histLoading' = TRUE
            /\ requests' = Append(RemoveAt(requests, i),
                                  FetchCategoriesRequestOf(requests[i].locals))
            /\ UNCHANGED histUi
       ELSE /\ histUi' = [histUi EXCEPT !.alert = "delete failed"]
            /\ requests' = RemoveAt(requests, i)
            /\ UNCHANGED histLoading
    /\ UNCHANGED <<currentMonth, transactions, dailyTotals, histCategories,
                   histPageFrame>>

\* amount.toString() of a fetched row
AmountToText(x) == IF x.t = "text" THEN x.v ELSE NumberToText(ToNumber(x))

handleEditTransaction(j) ==
    /\ Operates("edit")
    /\ HistoryPageShown
    /\ j \in DOMAIN transactions
    /\ histUi' = [histUi EXCEPT
           !.editingTransaction = transactions[j],
           !.editAmount = AmountToText(transactions[j].amount),
           !.editCategoryId = transactions[j].category_id,
           !.editDate = transactions[j].date]
    /\ UNCHANGED <<historyVars, requests, histPageFrame>>

\* the amount field of the edit dialog
SetEditAmount(t) ==
    /\ Operates("edit")
    /\ EditDialogShown
    /\ t # histUi.editAmount
    /\ histUi' = [histUi EXCEPT !.editAmount = t]
    /\ UNCHANGED <<historyVars, requests, histPageFrame>>

\* the fields of the edit dialog are all filled in
EditIsComplete ==
    /\ histUi.editingTransaction # NoTransaction
    /\ histUi.editAmount # <<>>
    /\ histUi.editCategoryId # NullCategoryId
    /\ histUi.editDate # <<>>

\* handleSaveEdit up to the await of the update
handleSaveEdit ==
    /\ Operates("edit")
    /\ EditDialogShown
    /\ IF ~EditIsComplete
       THEN /\ histUi' = [histUi EXCEPT !.alert = "fill in all fields"]
            /\ UNCHANGED requests
       ELSE /\ Len(requests) < MaxRequests
            /\ requests' =
                   Append(requests,
                          [Request("handleSaveEdit", "transactions", "update",
                                   Match(NoUser,
                                         histUi.editingTransaction.transaction_id,
                                         <<>>, <<>>),
                                   [amount |->
                                        [t |-> "number",
                                         v |-> NumberOfText(histUi.editAmount)],
                                    category_id |-> histUi.editCategoryId,
                                    date |-> histUi.editDate])
                              EXCEPT !.locals = MonthWindow(currentMonth)])
            /\ UNCHANGED histUi
    /\ UNCHANGED <<historyVars, histPageFrame>>

\* handleSaveEdit after the await: fetchTransactions is the callback of the
\* render the handler was started in
handleSaveEditResume(i) ==
    /\ page = "history"
    /\ i \in Answered("handleSaveEdit")
    /\ IF requests[i].status = "ok"
       THEN /\ histUi' = [histUi EXCEPT !.editingTransaction = NoTransaction]
            /\ histLoading' = TRUE
            /\ requests' = Append(RemoveAt(requests, i),
                                  FetchCategoriesRequestOf(requests[i].locals))
       ELSE /\ histUi' = [histUi EXCEPT !.alert = "update failed"]
            /\ requests' = RemoveAt(requests, i)
            /\ UNCHANGED histLoading
    /\ UNCHANGED <<currentMonth, transactions, dailyTotals, histCategories,
                   histPageFrame>>

handleCancelEdit ==
    /\ Operates("edit")
    /\ EditDialogShown
    /\ histUi' = [histUi EXCEPT !.editingTransaction = NoTransaction,
                                !.editAmount = <<>>,
                                !.editCategoryId = NullCategoryId,
                                !.editDate = <<>>]
    /\ UNCHANGED <<historyVars, requests, histPageFrame>>

NextHistoryPage ==
    \/ HistoryPageEffect
    \/ \E i \in 1..MaxRequests : FetchCategoriesResume(i)
    \/ \E i \in 1..MaxRequests : FetchTransactionsResume(i)
    \/ \E j \in 1..MaxTransactions : handleDeleteTransaction(j)
    \/ \E i \in 1..MaxRequests : handleDeleteTransactionResume(i)
    \/ \E j \in 1..MaxTransactions : handleEditTransaction(j)
    \/ \E t \in EditAmountTexts : SetEditAmount(t)
    \/ handleSaveEdit
    \/ \E i \in 1..MaxRequests : handleSaveEditResume(i)
    \/ handleCancelEdit

(***************************************************************************)
(* The application: one of its pages is open.                              *)
(***************************************************************************)
\* the row of savings_goals when GoalsPage is opened on a goal
SeedGoalContents ==
    [user_id : {"u1"}, goal_name : {"car"}, is_active : {TRUE},
     target_amount : {NumberValue(50000)},
     current_amount : {NumberValue(50000)},
     deadline : {NullValue}]

\* the row of transactions when HistoryPage is opened
SeedTransactionContents ==
    {c \in TransactionContents :
        /\ c.user_id = "u1"
        /\ c.kind.amount.t = "number"
        /\ c.date = <<NowMonth, 1>>}

\* the pages and, for each, the groups of controls a session operates: the
\* user works with one group of controls while a page is open (on HistoryPage
\* the month buttons go with the delete buttons and with the day buttons)
Sessions ==
    {<<"goals", "create">>, <<"goals", "edit">>, <<"goals", "card">>,
     <<"history", "edit">>, <<"history", "delete">>,
     <<"input", "entry">>, <<"dashboardInput", "entry">>}

InitApp ==
    /\ user = "u1"
    /\ now = Midnight(NowMonth, 1)
    /\ \E s \in Sessions : page = s[1] /\ session = s[2]
    /\ IF page = "goals"
       THEN \/ dbGoals = <<>>
            \/ \E c \in SeedGoalContents : dbGoals = <<GoalRow(c, 1)>>
       ELSE dbGoals = <<>>
    /\ IF page = "history"
       THEN \E c \in SeedTransactionContents :
                dbTransactions = <<TransactionRow(c, 1)>>
       ELSE dbTransactions = <<>>
    /\ requests = <<>>
    /\ nextGoalId = Len(dbGoals) + 1
    /\ GoalsPageMount
    /\ HistoryPageMount
    /\ EntryPagesMount
    /\ LoginPageMount

NextStore ==
    \/ \E i \in 1..MaxRequests : StoreExecute(i)
    \/ \E i \in 1..MaxRequests : StoreReject(i)

NextApp == NextGoalsPage \/ NextHistoryPage \/ NextEntry \/ NextStore

SpecApp == InitApp /\ [][NextApp]_vars

(***************************************************************************)
(* Properties of validation and of store errors, on every page.            *)
(***************************************************************************)
\* the text does not denote a number strictly greater than 0
NotAboveZero(text) ==
    LET v == ParseFloat(text) IN ~(v.k = "num" /\ v.n > 0)

\* the text does not denote a number greater than or equal to 0
NotAtLeastZero(text) ==
    LET v == ParseFloat(text) IN ~(v.k = "num" /\ v.n >= 0)

\* no call is sent, and the tables and the lists shown stay as they are
NothingSent ==
    /\ requests' = requests
    /\ pendingInsert' = pendingInsert
    /\ dbGoals' = dbGoals
    /\ dbTransactions' = dbTransactions
    /\ goals' = goals
    /\ transactions' = transactions
    /\ dailyTotals' = dailyTotals

\* C11: whenever a create or update handler finds its input invalid (the
\* submit of either entry page, handleCreateGoal, handleUpdateGoal,
\* handleSaveEdit), the step sets a message the user sees and sends no store
\* call; the tables and the displayed lists are unchanged.
C11_InvalidInputNoStoreCall ==
    [][/\ (TxInputSubmit /\ (NotAtLeastZero(txInput.amount)
                               \/ txInput.categoryId = NullCategoryId))
            => (txInput'.error # "null" /\ NothingSent)
       /\ (DashSubmit /\ NotAboveZero(dashInput.amount))
            => (dashInput'.error # "null" /\ NothingSent)
       /\ (handleCreateGoal /\ NotAboveZero(goalsUi.newGoal.target_amount))
            => (goalsError' # "null" /\ NothingSent)
       /\ ((\E goalId \in 1..MaxGoalRows : handleUpdateGoal(goalId))
             /\ (NotAboveZero(goalsUi.editGoal.target_amount)
                   \/ NotAtLeastZero(goalsUi.editGoal.current_amount)))
            => (goalsError' # "null" /\ NothingSent)
       /\ (handleSaveEdit /\ (histUi.editAmount = <<>>
                                \/ histUi.editCategoryId = NullCategoryId
                                \/ histUi.editDate = <<>>))
            => (histUi'.alert # "null" /\ NothingSent)]_vars

\* an update of a goal was refused for its current amount: the message is
\* shown, the edit form is still open, no call is in flight
C11_Witness ==
    /\ goalsError = "current invalid"
    /\ goalsUi.editingGoal # NoGoal
    /\ NotAtLeastZero(goalsUi.editGoal.current_amount)
    /\ requests = <<>>

\* the response resumed at position i of requests is an error
IsErrorResponse(i) == i \in DOMAIN requests /\ requests[i].status = "error"

\* GoalsPage shows and holds what it did: list, forms, success indicator,
\* edit and delete-confirm state, and no refetch is started
GoalsPageKept ==
    /\ goals' = goals
    /\ goalsUi' = goalsUi
    /\ goalsLoading' = goalsLoading

\* HistoryPage shows and holds what it did: list, daily totals, the edit
\* dialog and its fields, and no refetch is started
HistoryPageKept ==
    /\ transactions' = transactions
    /\ dailyTotals' = dailyTotals
    /\ histUi'.editingTransaction = histUi.editingTransaction
    /\ histUi'.editAmount = histUi.editAmount
    /\ histUi'.editCategoryId = histUi.editCategoryId
    /\ histUi'.editDate = histUi.editDate
    /\ histLoading' = histLoading

\* C12: when a store mutation returns an error (goal insert, update, delete,
\* toggle; transaction update, delete, insert), the resumed handler applies no
\* local change of the operation: the displayed goals, transactions and daily
\* totals stay, the success indicator is not set, the form fields are not
\* reset, and the edit or delete-confirm state is not closed.
C12_StoreErrorKeepsLocalState ==
    [][/\ \A i \in 1..MaxRequests :
              (IsErrorResponse(i)
                 /\ (\/ handleCreateGoalResume(i)
                     \/ handleUpdateGoalResume(i)
                     \/ handleDeleteGoalResume(i)
                     \/ toggleGoalActiveResume(i)))
                => GoalsPageKept
       /\ \A i \in 1..MaxRequests :
              (IsErrorResponse(i)
                 /\ (handleSaveEditResume(i) \/ handleDeleteTransactionResume(i)))
                => HistoryPageKept
       /\ TxInputInsertError
            => /\ ~txInput'.success
               /\ txInput'.amount = txInput.amount
               /\ txInput'.memo = txInput.memo
               /\ txInput'.date = txInput.date
               /\ dbTransactions' = dbTransactions
       /\ DashInsertError
            => /\ dashInput'.success = dashInput.success
               /\ dashInput'.amount = dashInput.amount
               /\ dashInput'.category = dashInput.category
               /\ dashInput'.note = dashInput.note
               /\ dashInput'.date = dashInput.date
               /\ dbTransactions' = dbTransactions]_vars

\* a delete of a goal has failed: the message is shown, the confirmation is
\* still open on the goal, which is still listed and still stored
C12_Witness ==
    /\ goalsError = "delete failed"
    /\ goalsUi.deleteConfirm # NoGoal
    /\ ~goalsUi.success
    /\ \E j \in DOMAIN goals : goals[j].goal_id = goalsUi.deleteConfirm
    /\ \E j \in DOMAIN dbGoals : dbGoals[j].goal_id = goalsUi.deleteConfirm

\* C13: every failing store call on every page (the goal fetch and the goal
\* mutations, the transaction fetch with its category select and the
\* transaction mutations, the category fetch and the inserts of the entry
\* pages) leaves a message the user sees when its handler resumes: an error
\* text on the page or an alert.
C13_EveryStoreErrorShown ==
    [][/\ \A i \in 1..MaxRequests :
              (IsErrorResponse(i)
                 /\ (\/ FetchGoalsResume(i)
                     \/ handleCreateGoalResume(i)
                     \/ handleUpdateGoalResume(i)
                     \/ handleDeleteGoalResume(i)
                     \/ toggleGoalActiveResume(i)))
                => goalsError' # "null"
       /\ \A i \in 1..MaxRequests :
              (IsErrorResponse(i)
                 /\ (\/ FetchCategoriesResume(i)
                     \/ FetchTransactionsResume(i)
                     \/ handleSaveEditResume(i)
                     \/ handleDeleteTransactionResume(i)))
                => histUi'.alert # "null"
       /\ (TxInputFetchCategoriesError \/ TxInputInsertError)
            => txInput'.error # "null"
       /\ DashInsertError => dashInput'.error # "null"]_vars

(***************************************************************************)
(* Properties of the stored rows.                                          *)
(***************************************************************************)
\* C14: after any sequence of transaction creations on the entry pages and
\* of edits with handleSaveEdit, every stored transaction has an amount that
\* is a number greater than or equal to 0 and a type that is income or
\* expense.
C14_StoredTransactionsValid ==
    \A i \in DOMAIN dbTransactions :
        /\ dbTransactions[i].type \in TransactionTypes
        /\ ToNumber(dbTransactions[i].amount).k = "num"
        /\ ToNumber(dbTransactions[i].amount).n >= 0

\* a stored or sent amount is a number and compares with 0 as stated
IsAboveZero(x) == ToNumber(x).k = "num" /\ ToNumber(x).n > 0
IsAtLeastZero(x) == ToNumber(x).k = "num" /\ ToNumber(x).n >= 0

\* C15: after any sequence of handleCreateGoal and handleUpdateGoal calls,
\* every stored savings goal has target_amount > 0 and current_amount >= 0;
\* every insert the page sends carries a target > 0, current_amount 0 and
\* is_active true, and every update of handleUpdateGoal carries a target > 0
\* and a current amount >= 0 (an invalid form sends nothing).
C15_StoredGoalsValid ==
    /\ \A i \in DOMAIN dbGoals :
           /\ IsAboveZero(dbGoals[i].target_amount)
           /\ IsAtLeastZero(dbGoals[i].current_amount)
    /\ \A i \in InFlight("handleCreateGoal") :
           /\ IsAboveZero(requests[i].values.target_amount)
           /\ requests[i].values.current_amount = NumberValue(0)
           /\ requests[i].values.is_active = TRUE
    /\ \A i \in InFlight("handleUpdateGoal") :
           /\ IsAboveZero(requests[i].values.target_amount)
           /\ IsAtLeastZero(requests[i].values.current_amount)

\* a goal created by the page is stored: the row holds what the insert held
C15_Witness ==
    /\ session = "create"
    /\ \E i \in DOMAIN dbGoals :
           /\ dbGoals[i].goal_id = nextGoalId - 1
           /\ IsAboveZero(dbGoals[i].target_amount)
           /\ dbGoals[i].current_amount = NumberValue(0)
           /\ dbGoals[i].is_active


(***************************************************************************)
(* An entry page and HistoryPage open on the same store: the entry forms   *)
(* with their memo and date fields, and HistoryPage's fetch of the month.  *)
(***************************************************************************)
\* texts typed into the memo fields
MemoTexts == {<<>>, <<"x">>}

\* values of the date fields: a day of this month, one of the month before
EntryDates == {<<NowMonth, 1>>, <<NowMonth - 1, 2>>}

TxInputSetMemo(m) ==
    /\ page = "input"
    /\ m # txInput.memo
    /\ txInput' = [txInput EXCEPT !.memo = m]
    /\ UNCHANGED <<entryFrame, dbTransactions, page, dashInput, pendingInsert>>

TxInputSetDate(d) ==
    /\ page = "input"
    /\ d # txInput.date
    /\ txInput' = [txInput EXCEPT !.date = d]
    /\ UNCHANGED <<entryFrame, dbTransactions, page, dashInput, pendingInsert>>

DashSetNote(m) ==
    /\ page = "dashboardInput"
    /\ m # dashInput.note
    /\ dashInput' = [dashInput EXCEPT !.note = m]
    /\ UNCHANGED <<entryFrame, dbTransactions, page, txInput, pendingInsert>>

DashSetDate(d) ==
    /\ page = "dashboardInput"
    /\ d # dashInput.date
    /\ dashInput' = [dashInput EXCEPT !.date = d]
    /\ UNCHANGED <<entryFrame, dbTransactions, page, txInput, pendingInsert>>

NextRoundTrip ==
    \/ NextEntry
    \/ \E m \in MemoTexts : TxInputSetMemo(m)
    \/ \E d \in EntryDates : TxInputSetDate(d)
    \/ \E m \in MemoTexts : DashSetNote(m)
    \/ \E d \in EntryDates : DashSetDate(d)
    \/ FetchTransactionsOk

SpecRoundTrip == InitEntry /\ [][NextRoundTrip]_vars

\* what the user entered in TransactionInputPage's form
TxInputEntered ==
    [type |-> txInput.transactionType,
     amount |-> txInput.amount,
     category |-> CategoryOf(txInput.categoryId).name,
     date |-> txInput.date,
     memo |-> TextOrNull(txInput.memo)]

\* what the user entered in InputPage's form
DashEntered ==
    [type |-> dashInput.transactionType,
     amount |-> dashInput.amount,
     category |-> dashInput.category,
     date |-> dashInput.date,
     memo |-> TextOrNull(dashInput.note)]

\* the same five fields of the values of an insert, and of a row
EnteredFieldsOf(values) ==
    [type |-> values.type,
     amount |-> NumberToText(values.amount),
     category |-> CategoryOf(values.category_id).name,
     date |-> values.date,
     memo |-> values.memo]

EnteredFieldsOfRow(row) ==
    [type |-> row.type,
     amount |-> NumberToText(ToNumber(row.amount)),
     category |-> CategoryOf(row.category_id).name,
     date |-> row.date,
     memo |-> row.memo]

\* C16: round trip. The insert an entry page sends carries the type, amount,
\* category, date and memo the user entered (an empty memo as null); the row
\* the store keeps for a successful insert has these values; and a fetch of
\* the owner's transactions of the month returns every stored row of the
\* owner dated in that month exactly once, with the stored values and its
\* category joined.
C16_RoundTrip ==
    [][/\ (TxInputSubmit /\ pendingInsert' # pendingInsert)
              => EnteredFieldsOf(pendingInsert'.values) = TxInputEntered
       /\ (DashSubmit /\ pendingInsert' # pendingInsert
                      /\ dashInput.category # "")
              => EnteredFieldsOf(pendingInsert'.values) = DashEntered
       /\ (TxInputInsertOk \/ DashInsertOk)
              => /\ Len(dbTransactions') = Len(dbTransactions) + 1
                 /\ LET row == dbTransactions'[Len(dbTransactions')]
                    IN  /\ row.user_id = user
                        /\ EnteredFieldsOfRow(row)
                             = EnteredFieldsOf(pendingInsert.values)
       /\ FetchTransactionsOk
              => \A i \in DOMAIN dbTransactions :
                   LET row == dbTransactions[i]
                       found == {j \in DOMAIN transactions' :
                                   transactions'[j].transaction_id
                                     = row.transaction_id}
                   IN  (/\ row.user_id = user
                        /\ DateTextLe(FirstDay(currentMonth), row.date)
                        /\ DateTextLe(row.date, LastDay(currentMonth)))
                       => /\ Cardinality(found) = 1
                          /\ \A j \in found :
                               /\ EnteredFieldsOfRow(transactions'[j])
                                    = EnteredFieldsOfRow(row)
                               /\ transactions'[j].category
                                    = CategoryOf(row.category_id)
      ]_vars


(***************************************************************************)
(* Mutations in flight.                                                    *)
(***************************************************************************)
\* the request at i is a mutation whose response has not been received
IsPendingMutation(i) ==
    /\ requests[i].status = "sent"
    /\ requests[i].op \in {"insert", "update", "delete"}

\* C17: while a mutation triggered by a control is pending, that control is
\* disabled: no second identical mutation (same handler, table, operation,
\* filter and values) is issued before the response of the first, and an
\* entry page has at most its one insert in flight and shows loading.
C17_PendingControlDisabled ==
    /\ \A i, j \in DOMAIN requests :
           (i < j /\ IsPendingMutation(i) /\ IsPendingMutation(j))
               => \/ requests[i].caller # requests[j].caller
                  \/ requests[i].table # requests[j].table
                  \/ requests[i].op # requests[j].op
                  \/ requests[i].match # requests[j].match
                  \/ requests[i].values # requests[j].values
    /\ pendingInsert.origin = "input" => txInput.loading
    /\ pendingInsert.origin = "dashboardInput" => dashInput.loading


\* the call r on transactions or savings_goals carries the user's id: an
\* insert as the field user_id of its values, any other call as a filter
CarriesUserId(r) ==
    IF r.op = "insert" THEN r.values.user_id = user
    ELSE r.match.user_id = user

\* C18: every store operation the client issues on transactions and
\* savings_goals (select, insert, update, delete) carries the authenticated
\* user's id as a filter or as a field.
C18_EveryCallCarriesUserId ==
    /\ \A i \in DOMAIN requests :
           requests[i].table \in {"transactions", "savings_goals"}
               => CarriesUserId(requests[i])
    /\ pendingInsert # NoRequest => pendingInsert.values.user_id = user


(***************************************************************************)
(* Properties of the fetched goals.                                        *)
(***************************************************************************)
\* C19: a fetched goal whose stored deadline is a non-empty text that does
\* not parse to a date carries that text unchanged; one whose stored
\* deadline parses carries the date's yyyy-MM-dd form.
C19_UnparseableDeadlineKept ==
    \A i \in DOMAIN goals :
        LET row == StoredGoal(goals[i].goal_id)
        IN  (row.deadline.t = "text" /\ row.deadline.v # <<>>)
                => IF IsValidDate(NewDate(row.deadline.v))
                   THEN goals[i].deadline = ToISODate(NewDate(row.deadline.v))
                   ELSE goals[i].deadline = row.deadline.v

\* a goal has been fetched whose stored deadline does not parse
C19_Witness ==
    \E i \in DOMAIN goals :
        LET row == StoredGoal(goals[i].goal_id)
        IN  /\ row.deadline.t = "text" /\ row.deadline.v # <<>>
            /\ ~IsValidDate(NewDate(row.deadline.v))
            /\ goals[i].deadline # <<>>


(***************************************************************************)
(* GoalsPage showing one stored goal of any content: the fetch on mount,   *)
(* and the card swapped for its edit form and back.                        *)
(***************************************************************************)
InitGoalCards ==
    /\ user = "u1"
    /\ now \in NowInstants
    /\ \E c \in GoalContents : dbGoals = <<GoalRow(c, 1)>>
    /\ dbTransactions = <<>>
    /\ GoalsPageMount
    /\ HistoryPageMount
    /\ page = "goals"
    /\ EntryPagesMount
    /\ LoginPageMount
    /\ requests = <<>>
    /\ nextGoalId = Len(dbGoals) + 1
    /\ session = "edit"

NextGoalCards ==
    \/ GoalsPageEffect
    \/ \E i \in DOMAIN requests : StoreExecute(i)
    \/ \E i \in DOMAIN requests : StoreReject(i)
    \/ \E i \in DOMAIN requests : FetchGoalsResume(i)
    \/ \E j \in DOMAIN goals : startEditGoal(j)
    \/ cancelEdit

SpecGoalCards == InitGoalCards /\ [][NextGoalCards]_vars

\* the achieved banner rendered only above 100
AchievedShownAbove(goal) ==
    GoalCardShown(goal) /\ JsGt(goal.progress_percentage, Num(100))

\* the achieved banner of goal is rendered: it is part of the card, under
\* goal.progress_percentage >= 100
AchievedShown(goal) ==
    GoalCardShown(goal) /\ JsLe(Num(100), goal.progress_percentage)

\* current_amount >= target_amount > 0
TargetReached(goal) ==
    /\ JsGt(goal.target_amount, Num(0))
    /\ JsLe(goal.target_amount, goal.current_amount)

\* C20 as stated: every fetched goal with current_amount >= target_amount > 0
\* has progress_percentage exactly 100 and is shown as achieved; the achieved
\* state is shown exactly when progress_percentage >= 100; and a goal with no
\* deadline has monthly_required_amount 0.
C20_AchievedShownAsStated ==
    \A i \in DOMAIN goals :
        /\ TargetReached(goals[i])
               => /\ goals[i].progress_percentage = Num(100)
                  /\ AchievedShown(goals[i])
        /\ AchievedShown(goals[i])
               <=> JsLe(Num(100), goals[i].progress_percentage)
        /\ goals[i].deadline = <<>>
               => goals[i].monthly_required_amount = Num(0)

\* C20, amended: every fetched goal with current_amount >= target_amount > 0
\* has progress_percentage exactly 100, every other one a percentage below
\* 100; while the card of a goal is rendered (the page is not loading and the
\* goal is not being edited) the achieved state is shown exactly when
\* current_amount >= target_amount > 0, and it is never shown otherwise; a
\* goal with no deadline has monthly_required_amount 0.
C20_AchievedShownOnCard ==
    \A i \in DOMAIN goals :
        /\ IF TargetReached(goals[i])
           THEN goals[i].progress_percentage = Num(100)
           ELSE JsLt(goals[i].progress_percentage, Num(100))
        /\ GoalCardShown(goals[i])
               => (AchievedShown(goals[i]) <=> TargetReached(goals[i]))
        /\ ~GoalCardShown(goals[i]) => ~AchievedShown(goals[i])
        /\ goals[i].deadline = <<>>
               => goals[i].monthly_required_amount = Num(0)

\* the scenario: the card of a goal with target 50000, current 50000 and no
\* deadline is rendered with 100 percent, 0 required, and the achieved banner
C20_Witness ==
    \E i \in DOMAIN goals :
        /\ goals[i].target_amount = Num(50000)
        /\ goals[i].current_amount = Num(50000)
        /\ goals[i].deadline = <<>>
        /\ goals[i].progress_percentage = Num(100)
        /\ goals[i].monthly_required_amount = Num(0)
        /\ AchievedShown(goals[i])


(***************************************************************************)
(* HistoryPage's calendar: the month buttons, the day buttons and the      *)
(* list under them.                                                        *)
(***************************************************************************)
\* the months the header is moved between
ShownMonths == {NowMonth - 1, NowMonth}

\* the controls of the page can be operated: the page is rendered and the
\* overlay of the edit dialog does not cover it
CalendarShown == HistoryPageShown /\ histUi.editingTransaction = NoTransaction

\* setCurrentMonth(m); setSelectedDate(null); the render that follows makes
\* a new fetchTransactions, and the useEffect on it calls it
MoveToMonth(m) ==
    /\ Operates("calendar") \/ Operates("delete")
    /\ CalendarShown
    /\ m \in ShownMonths
    /\ Len(requests) < MaxRequests
    /\ currentMonth' = m
    /\ histUi' = [histUi EXCEPT !.selectedDate = <<>>]
    /\ histLoading' = TRUE
    /\ requests' = Append(requests, FetchCategoriesRequestOf(MonthWindow(m)))
    /\ UNCHANGED <<transactions, dailyTotals, histCategories, histPageFrame>>

handlePreviousMonth == MoveToMonth(currentMonth - 1)

handleNextMonth == MoveToMonth(currentMonth + 1)

\* the day buttons of the calendar: generateCalendarDays
CalendarDays == {<<currentMonth, d>> : d \in 1..DaysPerMonth}

handleDateClick(date) ==
    /\ Operates("calendar")
    /\ CalendarShown
    /\ date \in CalendarDays
    /\ date # histUi.selectedDate
    /\ histUi' = [histUi EXCEPT !.selectedDate = date]
    /\ UNCHANGED <<historyVars, requests, histPageFrame>>

\* the "show all dates" button, rendered while a date is selected
ShowAllDates ==
    /\ Operates("calendar")
    /\ CalendarShown
    /\ histUi.selectedDate # <<>>
    /\ histUi' = [histUi EXCEPT !.selectedDate = <<>>]
    /\ UNCHANGED <<historyVars, requests, histPageFrame>>

\* transactions.filter((tx) => tx.date === format(date, "yyyy-MM-dd"))
getTransactionsForDate(date) ==
    SelectSeq(transactions, LAMBDA tx : tx.date = date)

\* the list without the filter of the selected date
getFilteredTransactionsUnfiltered == transactions

\* the list the page renders
getFilteredTransactions ==
    IF histUi.selectedDate # <<>>
    THEN getTransactionsForDate(histUi.selectedDate)
    ELSE transactions

\* rows of the user: an expense on a day of the month the page opens on or
\* of the month before, or an income on the first day
CalendarRowContents ==
    [user_id : {"u1"},
     date : {<<NowMonth, 1>>, <<NowMonth, 2>>, <<NowMonth - 1, 2>>},
     memo : {NullValue},
     kind : {[type |-> "expense", amount |-> NumberValue(300),
              category_id |-> 1]}]
      \cup
    [user_id : {"u1"}, date : {<<NowMonth, 1>>}, memo : {NullValue},
     kind : {[type |-> "income", amount |-> NumberValue(1000),
              category_id |-> 3]}]

\* the numbers of rows stored when the page is opened
CalendarRowCounts == {1, 2}

\* the rows stored when the page is opened to delete: one of the month the
\* page opens on and one of the month before
DeleteRowContents ==
    {c \in [1..2 -> CalendarRowContents] :
        /\ c[1].date = <<NowMonth - 1, 2>>
        /\ c[2].date[1] = NowMonth}

InitCalendar ==
    /\ user = "u1"
    /\ now = Midnight(NowMonth, 1)
    /\ page = "history"
    /\ session \in {"calendar", "delete", "edit"}
    /\ dbGoals = <<>>
    /\ IF session = "edit"
       THEN \E c \in SeedTransactionContents :
                dbTransactions = <<TransactionRow(c, 1)>>
       ELSE IF session = "delete"
       THEN \E c \in DeleteRowContents :
                dbTransactions = [i \in 1..2 |-> TransactionRow(c[i], i)]
       ELSE \E n \in CalendarRowCounts :
            \E c \in [1..n -> CalendarRowContents] :
                dbTransactions = [i \in 1..n |-> TransactionRow(c[i], i)]
    /\ requests = <<>>
    /\ nextGoalId = Len(dbGoals) + 1
    /\ GoalsPageMount
    /\ HistoryPageMount
    /\ EntryPagesMount
    /\ LoginPageMount

NextCalendar ==
    \/ NextHistoryPage
    \/ NextStore
    \/ handlePreviousMonth
    \/ handleNextMonth
    \/ \E d \in 1..DaysPerMonth : handleDateClick(<<currentMonth, d>>)
    \/ ShowAllDates

SpecCalendar == InitCalendar /\ [][NextCalendar]_vars


(***************************************************************************)
(* Properties of HistoryPage's calendar and list.                          *)
(***************************************************************************)
\* the ids of a sequence of fetched rows
IdsOf(txs) == {txs[i].transaction_id : i \in DOMAIN txs}

\* the list shown is the fetched set, or its rows of the selected date
ListIsOneOfTheTwo ==
    LET shown == getFilteredTransactions
        onDate == {i \in DOMAIN transactions :
                      transactions[i].date = histUi.selectedDate}
    IN  IF histUi.selectedDate = <<>>
        THEN shown = transactions
        ELSE /\ \A k \in DOMAIN shown :
                   /\ shown[k].date = histUi.selectedDate
                   /\ \E i \in onDate : shown[k] = transactions[i]
             /\ IdsOf(shown) = {transactions[i].transaction_id : i \in onDate}
             /\ Len(shown) = Cardinality(onDate)

\* C21: with a date selected the history list shows exactly the fetched
\* transactions of that date, with none selected exactly the fetched set of
\* the month, never a mix; selecting a date or clearing the selection changes
\* neither the fetched transactions nor the daily totals.
C21_ListFollowsSelectedDate ==
    [][/\ ListIsOneOfTheTwo
       /\ ListIsOneOfTheTwo'
       /\ ((\E d \in 1..DaysPerMonth : handleDateClick(<<currentMonth, d>>))
             \/ ShowAllDates)
            => /\ transactions' = transactions
               /\ dailyTotals' = dailyTotals]_vars

\* a date is selected and the list shows one of the two fetched rows
C21_Witness ==
    /\ histUi.selectedDate # <<>>
    /\ Len(transactions) = 2
    /\ Len(getFilteredTransactions) = 1
    /\ getFilteredTransactions[1].date = histUi.selectedDate


(***************************************************************************)
(* GoalsPage and HistoryPage opened on a store that holds one goal, or one *)
(* expense: the mutations of the two pages and the fetches that follow     *)
(* them.                                                                   *)
(***************************************************************************)
InitMutations ==
    /\ InitApp
    /\ page \in {"goals", "history"}
    /\ session \in {"edit", "card"} /\ page = "goals" => dbGoals # <<>>
    /\ page = "history"
          => /\ dbTransactions[1].type = "expense"
             /\ dbTransactions[1].amount = NumberValue(300)

NextMutations == NextGoalsPage \/ NextHistoryPage \/ NextStore

SpecMutations == InitMutations /\ [][NextMutations]_vars

(***************************************************************************)
(* Sequencing of a mutation and the refetch that follows it.               *)
(***************************************************************************)

\* the selects of fetchGoals and fetchTransactions in flight
FetchCalls ==
    {i \in DOMAIN requests :
        requests[i].caller \in {"fetchGoals", "fetchTransactions"}}

\* the call at position i of requests is a call of caller and the store has
\* answered it with success
IsOkResponse(i, caller) ==
    /\ i \in DOMAIN requests
    /\ requests[i].status = "ok"
    /\ requests[i].caller = caller

\* the step removes the call at i and issues a fetch, which the store has
\* not executed yet
RefetchIssuedFor(i) ==
    /\ Len(requests') = Len(requests)
    /\ Cardinality(FetchCalls') = Cardinality(FetchCalls) + 1
    /\ requests'[Len(requests')].caller \in {"fetchGoals", "fetchTransactions"}
    /\ requests'[Len(requests')].status = "sent"

C23_CategoryTypeMatches ==
    /\ \A i \in DOMAIN dbTransactions :
           CategoryOf(dbTransactions[i].category_id).type
             = dbTransactions[i].type
    /\ pendingInsert # NoRequest
           => CategoryOf(pendingInsert.values.category_id).type
                = pendingInsert.values.type


(***************************************************************************)
(* The writers of is_active.                                               *)
(***************************************************************************)
StoredGoalIds(db) == {db[i].goal_id : i \in DOMAIN db}

GoalRowIn(db, id) == db[CHOOSE i \in DOMAIN db : db[i].goal_id = id]

\* the step is the store executing a call of caller on the goal id
ExecutesOn(caller, id) ==
    \E i \in DOMAIN requests :
        /\ requests[i].caller = caller
        /\ requests[i].match.id = id
        /\ StoreExecute(i)

GroupPush(acc, tx) ==
    IF \E k \in DOMAIN acc : acc[k].date = tx.date
    THEN [k \in DOMAIN acc |->
             IF acc[k].date = tx.date
             THEN [acc[k] EXCEPT !.txs = Append(acc[k].txs, tx)]
             ELSE acc[k]]
    ELSE Append(acc, [date |-> tx.date, txs |-> <<tx>>])

\* txs.reduce(GroupPush, acc)
RECURSIVE GroupReduce(_, _)
GroupReduce(acc, txs) ==
    IF txs = <<>> THEN acc
    ELSE GroupReduce(GroupPush(acc, Head(txs)), Tail(txs))

\* Array.from(txs.reduce(..., new Map())): the groups as they are rendered,
\* first to last
DateGroups(txs) == GroupReduce(<<>>, txs)

\* the groups come in strictly descending order of their dates, so no date
\* has two groups
GroupsDescend(groups) ==
    \A k \in DOMAIN groups : \A l \in DOMAIN groups :
        k < l => /\ DateTextLe(groups[l].date, groups[k].date)
                 /\ groups[l].date # groups[k].date

\* every listed transaction is in the group of its date and in no other
GroupsPartition(groups, txs) ==
    /\ \A k \in DOMAIN groups : \A n \in DOMAIN groups[k].txs :
           groups[k].txs[n].date = groups[k].date
    /\ \A i \in DOMAIN txs :
           Cardinality({<<k, n>> \in (DOMAIN groups) \X (1..Len(txs)) :
                           /\ n \in DOMAIN groups[k].txs
                           /\ groups[k].txs[n] = txs[i]}) = 1

\* the listed transactions rearranged by the permutation p of their indices
ListPermuted(p) ==
    [i \in DOMAIN getFilteredTransactions |-> getFilteredTransactions[p[i]]]

GoalsShownAreStored ==
    LET rows == SelectGoals(user)
    IN  /\ Len(goals) = Len(rows)
        /\ \A j \in DOMAIN goals :
               LET shown == GoalWithCalculations(rows[j], DateAt(now))
               IN  /\ goals[j].goal_id = rows[j].goal_id
                   /\ goals[j].goal_name = rows[j].goal_name
                   /\ goals[j].is_active = rows[j].is_active
                   /\ goals[j].target_amount = shown.target_amount
                   /\ goals[j].current_amount = shown.current_amount
                   /\ goals[j].deadline = shown.deadline

\* C26: on GoalsPage, when no call is in flight and no call has failed, the
\* goals shown are the goals of the user in the store.
C26_GoalsShownWhenQuiet ==
    (/\ page = "goals"
     /\ requests = <<>>
     /\ ~goalsLoading
     /\ goalsError = "null")
        => GoalsShownAreStored


\* the transactions of the user in the store for the month of the header
TransactionsOfHeaderMonth ==
    SelectTransactions(user, FirstDay(currentMonth), LastDay(currentMonth))

\* C27: on HistoryPage, when the last call in flight is a fetch and it
\* resolves successfully, the transactions shown are those of the month in
\* the header and the daily totals are their totals.
C27_HeaderMonthShownWhenQuiet ==
    [][\A i \in DOMAIN requests :
          (/\ FetchTransactionsResume(i)
           /\ requests[i].status = "ok"
           /\ requests' = <<>>)
              => /\ transactions' = TransactionsOfHeaderMonth'
                 /\ dailyTotals' = DailyTotalsOf(TransactionsOfHeaderMonth')]_vars


\* C28: every activation of the toggle inverts the stored is_active of its
\* goal: when the store executes the update of an activation, the stored
\* value becomes the opposite of what it was.
C28_ToggleInvertsStored ==
    [][\A id \in StoredGoalIds(dbGoals) :
          ExecutesOn("toggleGoalActive", id)
              => /\ id \in StoredGoalIds(dbGoals')
                 /\ GoalRowIn(dbGoals', id).is_active
                      = ~GoalRowIn(dbGoals, id).is_active]_vars


\* the step is fetchTransactions taking the rows of a successful select
SuccessfulFetchStep ==
    \E i \in DOMAIN requests :
        FetchTransactionsResume(i) /\ requests[i].status = "ok"

\* C29: on HistoryPage dailyTotals is the aggregation of the transactions
\* held in state, in every state; the two change only in the step in which
\* fetchTransactions takes the rows of a successful select, which sets both
\* from the same rows. A date selection, opening or cancelling an edit, a
\* failed fetch and a failed mutation change neither.
C29_TotalsAreOfTransactions ==
    /\ [](dailyTotals = DailyTotalsOf(transactions))
    /\ [][(transactions' # transactions \/ dailyTotals' # dailyTotals)
              => /\ SuccessfulFetchStep
                 /\ \E i \in DOMAIN requests :
                        /\ transactions' = requests[i].rows
                        /\ dailyTotals' = DailyTotalsOf(requests[i].rows)]_vars

\* two transactions of two dates have been fetched and a date is selected
C29_Witness ==
    /\ CalendarShown
    /\ Len(transactions) = 2
    /\ DOMAIN dailyTotals = {<<NowMonth, 1>>, <<NowMonth, 2>>}
    /\ dailyTotals[<<NowMonth, 1>>].net = Num(1000)
    /\ histUi.selectedDate = <<NowMonth, 2>>


(***************************************************************************)
(* LoginPage, and the submit buttons of the three pages with a loading     *)
(* flag.                                                                   *)
(***************************************************************************)
\* what is typed into the email and password fields
EmailTexts == {"", "a@example.com"}
PasswordTexts == {"", "secret"}

loginFrame ==
    <<user, now, dbGoals, dbTransactions, goalsVars, historyVars, txInput,
      dashInput, pendingInsert, opsVars>>

setEmail(t) ==
    /\ page = "login"
    /\ t # loginUi.email
    /\ loginUi' = [loginUi EXCEPT !.email = t]
    /\ UNCHANGED <<page, loginFrame>>

setPassword(t) ==
    /\ page = "login"
    /\ t # loginUi.password
    /\ loginUi' = [loginUi EXCEPT !.password = t]
    /\ UNCHANGED <<page, loginFrame>>

handleTabChange(tab) ==
    /\ page = "login"
    /\ loginUi' = [loginUi EXCEPT !.activeTab = tab, !.error = "null",
                                  !.message = "null", !.email = "",
                                  !.password = ""]
    /\ UNCHANGED <<page, loginFrame>>

\* the form of the tab can be submitted: both fields are required and the
\* button is disabled while loading
LoginFormSubmits(tab) ==
    /\ page = "login"
    /\ loginUi.activeTab = tab
    /\ ~loginUi.loading
    /\ loginUi.email # ""
    /\ loginUi.password # ""

\* handleLogin up to the await of signInWithPassword
handleLogin ==
    /\ LoginFormSubmits("login")
    /\ loginUi' = [loginUi EXCEPT !.loading = TRUE, !.error = "null",
                                  !.message = "null",
                                  !.call = "signInWithPassword"]
    /\ UNCHANGED <<page, loginFrame>>

\* handleLogin after the await, no error: router.push("/dashboard")
handleLoginOk ==
    /\ page = "login"
    /\ loginUi.call = "signInWithPassword"
    /\ loginUi' = [loginUi EXCEPT !.call = "none", !.pushed = "/dashboard"]
    /\ UNCHANGED <<page, loginFrame>>

\* handleLogin after the await, with an error
handleLoginError ==
    /\ page = "login"
    /\ loginUi.call = "signInWithPassword"
    /\ loginUi' = [loginUi EXCEPT !.call = "none", !.error = "sign-in failed",
                                  !.loading = FALSE]
    /\ UNCHANGED <<page, loginFrame>>

\* handleSignup up to the await of signUp
handleSignup ==
    /\ LoginFormSubmits("signup")
    /\ loginUi' = [loginUi EXCEPT !.loading = TRUE, !.error = "null",
                                  !.message = "null", !.call = "signUp"]
    /\ UNCHANGED <<page, loginFrame>>

\* handleSignup after the await, no error
handleSignupOk ==
    /\ page = "login"
    /\ loginUi.call = "signUp"
    /\ loginUi' = [loginUi EXCEPT !.call = "none",
                                  !.message = "confirmation mail sent",
                                  !.loading = FALSE]
    /\ UNCHANGED <<page, loginFrame>>

\* handleSignup after the await, with an error
handleSignupError ==
    /\ page = "login"
    /\ loginUi.call = "signUp"
    /\ loginUi' = [loginUi EXCEPT !.call = "none", !.error = "sign-up failed",
                                  !.loading = FALSE]
    /\ UNCHANGED <<page, loginFrame>>

\* the navigation started by router.push completes: LoginPage is unmounted
LoginPageLeft ==
    /\ page = "login"
    /\ loginUi.pushed = "/dashboard"
    /\ page' = "dashboard"
    /\ UNCHANGED <<loginUi, loginFrame>>

NextLogin ==
    \/ \E t \in EmailTexts : setEmail(t)
    \/ \E t \in PasswordTexts : setPassword(t)
    \/ \E tab \in {"login", "signup"} : handleTabChange(tab)
    \/ handleLogin
    \/ handleLoginOk
    \/ handleLoginError
    \/ handleSignup
    \/ handleSignupOk
    \/ handleSignupError
    \/ LoginPageLeft

\* one of the three pages is open; nobody is signed in on LoginPage
InitSubmit ==
    /\ page \in {"input", "dashboardInput", "login"}
    /\ user = IF page = "login" THEN NoUser ELSE "u1"
    /\ now = Midnight(NowMonth, 1)
    /\ dbGoals = <<>>
    /\ dbTransactions = <<>>
    /\ GoalsPageMount
    /\ HistoryPageMount
    /\ EntryPagesMount
    /\ LoginPageMount
    /\ requests = <<>>
    /\ nextGoalId = Len(dbGoals) + 1
    /\ session = "none"

NextSubmit == NextEntry \/ NextLogin

SpecSubmit == InitSubmit /\ [][NextSubmit]_vars

\* no call of the page that is open awaits its response
NoCallPending ==
    CASE page = "login" -> loginUi.call = "none"
      [] OTHER -> pendingInsert = NoRequest

\* the loading flag of the page that is open
PageLoading ==
    CASE page = "input" -> txInput.loading
      [] page = "dashboardInput" -> dashInput.loading
      [] page = "login" -> loginUi.loading
      [] OTHER -> FALSE

\* C30: on TransactionInputPage, InputPage and LoginPage, whenever no call
\* of the page awaits its response (none was sent because validation failed,
\* or the call has returned with an error or with success), the loading flag
\* is false, so the submit button is enabled.
C30_LoadingFalseAfterSubmit == NoCallPending => ~PageLoading

====
